---- MODULE Spec2Model ----
(***************************************************************************)
(* A model of the dependency-graph job scheduler of src/JobId.cpp:         *)
(* ConcurrentQueue<int> (the ready queue) and PipelineManager (the         *)
(* constructor, execute and worker).                                       *)
(*                                                                         *)
(* Threads are the thread that calls execute (Main) and the pool's worker  *)
(* threads.  A step of the model is one access to shared state: a mutex    *)
(* acquisition, the evaluation of a wait predicate under its mutex, the    *)
(* atomic "unlock and block" of condition_variable::wait, a store to an    *)
(* atomic, a notify.  A std::mutex is the set of threads holding it ({} is *)
(* unlocked); a condition variable is the set of threads blocked on it.    *)
(***************************************************************************)
EXTENDS Integers, Sequences, FiniteSets

\* Largest pool size explored (thread::hardware_concurrency() is an input).
MaxThreads == 2

\* The number of push calls and of set_finished calls the queue's client makes
\* when ConcurrentQueue is exercised on its own.
MaxPushes == 2

MaxFinishCalls == 2

\* The number of tasks the client of task_execution.cpp's Worker submits.
MaxTasks == 2

\* The number of alloc and free calls made on the BuddyAllocator.
MaxCalls == 3

\* The number of player threads of playground.cpp.
MaxPlayers == 3

\* The thread running PipelineManager::execute.
Main == 0

Workers == 1..MaxThreads

\* ---------------------------------------------------------------- inputs

\* The job lists and edge lists handed to the constructor.  An edge <<u, v>>
\* is the pair {u, v} of deps: v must run after u.
EmptyGraph == [jobs |-> <<>>, deps |-> <<>>]

SingleJob == [jobs |-> <<1>>, deps |-> <<>>]

TwoIndependent == [jobs |-> <<1, 2>>, deps |-> <<>>]

Chain == [jobs |-> <<1, 2>>, deps |-> << <<1, 2>> >>]

Join == [jobs |-> <<1, 2, 3>>, deps |-> << <<1, 3>>, <<2, 3>> >>]

\* The graph of main(): 1 -> 2, 1 -> 3, 2 -> 4, 3 -> 4.
Diamond == [jobs |-> <<1, 2, 3, 4>>,
            deps |-> << <<1, 2>>, <<1, 3>>, <<2, 4>>, <<3, 4>> >>]

Graphs == {EmptyGraph, SingleJob, TwoIndependent, Chain, Join, Diamond}

\* Edge lists the constructor accepts although they are no dependency graph of
\* the listed jobs: an edge to or from an id that is no job, and cycles.
UnknownTarget == [jobs |-> <<1, 2>>, deps |-> << <<1, 3>> >>]

UnknownSource == [jobs |-> <<1, 2>>, deps |-> << <<3, 2>> >>]

SelfEdge == [jobs |-> <<1, 2>>, deps |-> << <<1, 1>> >>]

TwoCycle == [jobs |-> <<1, 2, 3>>, deps |-> << <<1, 2>>, <<2, 1>> >>]

MalformedGraphs == {UnknownTarget, UnknownSource, SelfEdge, TwoCycle}

Range(s) == {s[i] : i \in 1..Len(s)}

\* Every id the constructor touches: the listed jobs and the edge endpoints.
IdsOf(G) == Range(G.jobs) \cup {e[1] : e \in Range(G.deps)} \cup {e[2] : e \in Range(G.deps)}

RECURSIVE Dependents(_, _)
\* adj[u] as the constructor's loop builds it: the second components of the
\* edges leaving u, in the order of deps.
Dependents(ds, u) ==
    IF ds = <<>> THEN <<>>
    ELSE IF Head(ds)[1] = u THEN <<Head(ds)[2]>> \o Dependents(Tail(ds), u)
         ELSE Dependents(Tail(ds), u)

BuildAdj(G) == [u \in IdsOf(G) |-> Dependents(G.deps, u)]

\* A variant of the indegree count that records only whether an edge enters v.
BuildIndegreeFlag(G) ==
    [v \in IdsOf(G) |-> IF \E i \in 1..Len(G.deps) : G.deps[i][2] = v THEN 1 ELSE 0]

\* indegree[v]: one increment per edge entering v (a default-inserted 0 otherwise).
BuildIndegree(G) ==
    [v \in IdsOf(G) |-> Cardinality({i \in 1..Len(G.deps) : G.deps[i][2] = v})]

\* A variant of the seeding test that pushes every job.
SeedsAll(n) == TRUE

\* The constructor's test for seeding a job: indegree[j.jobId] == 0.
Seeds(n) == n = 0

RECURSIVE SeedReady(_, _)
\* The ready queue after the constructor's seeding loop over the job list.
SeedReady(js, indeg) ==
    IF js = <<>> THEN <<>>
    ELSE IF Seeds(indeg[Head(js)]) THEN <<Head(js)>> \o SeedReady(Tail(js), indeg)
         ELSE SeedReady(Tail(js), indeg)

\* ----------------------------------------------------------------- state

VARIABLES
    jobs,           \* PipelineManager::jobs, as the sequence of job ids
    deps,           \* the constructor's edge list
    failing,        \* the jobs whose doWork throws
    nThreads,       \* the pool size chosen in execute
    adj,            \* job -> dependents
    indegree,       \* job -> dependency count
    total,          \* number of jobs
    done,           \* atomic<int> done
    q,              \* ConcurrentQueue::q of ready
    finished,       \* ConcurrentQueue::finished of ready
    m,              \* ConcurrentQueue::m of ready
    cv,             \* ConcurrentQueue::cv of ready: the workers blocked in pop
    indegreeMutex,
    doneMutex,
    cv_done,        \* the threads blocked in execute's completion wait
    mainPc,         \* where execute is
    spawned,        \* workers.size() in execute
    joined,         \* the workers execute has joined
    pc,             \* where each worker thread is
    jobId,          \* worker's local jobId
    finishedCount,  \* worker's local finishedCount
    k,              \* worker's position in the loop over adj[jobId]
    aborted,        \* std::terminate has ended the process
    startCount,     \* per job: calls of doWork begun
    endCount,       \* per job: calls of doWork that returned
    pushCount,      \* per job: pushes onto ready
    finishCalls     \* calls of ready.set_finished begun

\* The objects of the repository's other programs, one record each; a program
\* that is not the one being run has no object.
VARIABLES
    taskWorker,     \* task_execution.cpp: the Worker pool and its client
    buddyAllocator, \* buddyalgo.cpp: the BuddyAllocator
    webCrawler,     \* webcrawler.cpp: the WebCrawler
    playGround,     \* playground.cpp: the PlayGround and its players
    batchScheduler, \* playground_new.cpp: the GatedBatchScheduler
    scheduler,      \* scheduler.cpp, scheduler_new.cpp: the scheduler and its client
    chunkCopy,      \* filewrite.cpp: one call of copy
    taskManager     \* Nodescheduler.cpp: the TaskManager

NotConstructed == "not constructed"

otherPrograms == <<taskWorker, buddyAllocator, webCrawler, playGround, batchScheduler,
                   scheduler, chunkCopy, taskManager>>

pipelineVars == <<jobs, deps, failing, nThreads, adj, indegree, total, done, q,
                  finished, m, cv, indegreeMutex, doneMutex, cv_done, mainPc,
                  spawned, joined, pc, jobId, finishedCount, k, aborted,
                  startCount, endCount, pushCount, finishCalls>>

vars == <<pipelineVars, otherPrograms>>

\* What no step of the pipeline changes: its inputs, and the other programs.
inputVars == <<jobs, deps, failing, nThreads, adj, total, otherPrograms>>

\* Only JobId.cpp's program is running.
OnlyPipeline ==
    /\ taskWorker = NotConstructed
    /\ buddyAllocator = NotConstructed
    /\ webCrawler = NotConstructed
    /\ playGround = NotConstructed
    /\ batchScheduler = NotConstructed
    /\ scheduler = NotConstructed
    /\ chunkCopy = NotConstructed
    /\ taskManager = NotConstructed

queueVars == <<q, finished, m, cv>>

mainVars == <<mainPc, spawned, joined>>

histVars == <<startCount, endCount, pushCount, finishCalls>>

\* The state when the constructor has returned and execute is entered.
InitWith(G, n, f) ==
    /\ jobs = G.jobs
    /\ deps = G.deps
    /\ failing = f
    /\ nThreads = n
    /\ adj = BuildAdj(G)
    /\ indegree = BuildIndegree(G)
    /\ total = Len(G.jobs)
    /\ done = 0
    /\ q = SeedReady(G.jobs, BuildIndegree(G))
    /\ finished = FALSE
    /\ m = {}
    /\ cv = {}
    /\ indegreeMutex = {}
    /\ doneMutex = {}
    /\ cv_done = {}
    /\ mainPc = "spawn"
    /\ spawned = 0
    /\ joined = 0
    /\ pc = [w \in Workers |-> "unborn"]
    /\ jobId = [w \in Workers |-> 0]
    /\ finishedCount = [w \in Workers |-> 0]
    /\ k = [w \in Workers |-> 0]
    /\ aborted = FALSE
    /\ startCount = [j \in IdsOf(G) |-> 0]
    /\ endCount = [j \in IdsOf(G) |-> 0]
    /\ pushCount = [j \in IdsOf(G) |->
                      Cardinality({i \in 1..Len(SeedReady(G.jobs, BuildIndegree(G))) :
                                     SeedReady(G.jobs, BuildIndegree(G))[i] = j})]
    /\ finishCalls = 0

Init == \E G \in Graphs : \E n \in 1..MaxThreads : \E f \in SUBSET Range(G.jobs) :
            InitWith(G, n, f) /\ OnlyPipeline

\* The constructor does not validate its arguments: the same construction on
\* the malformed edge lists, with no failing callable.
InitMalformed == \E G \in MalformedGraphs : \E n \in 1..MaxThreads :
                     InitWith(G, n, {}) /\ OnlyPipeline

\* -------------------------------------------------- execute (Main thread)

\* A variant of the completion predicate that is satisfied one job early.
AllDoneEarly(d, t) == d + 1 >= t

\* The predicate of execute's cv_done.wait: done.load() >= total.
AllDone(d, t) == d >= t

\* workers.emplace_back(&PipelineManager::worker, this): one thread starts.
Spawn ==
    /\ ~aborted
    /\ mainPc = "spawn"
    /\ spawned < nThreads
    /\ spawned' = spawned + 1
    /\ pc' = [pc EXCEPT ![spawned + 1] = "pop"]
    /\ mainPc' = IF spawned + 1 = nThreads THEN "wait_lock" ELSE "spawn"
    /\ UNCHANGED <<inputVars, indegree, done, queueVars, indegreeMutex, doneMutex,
                   cv_done, joined, jobId, finishedCount, k, aborted, histVars>>

\* unique_lock<mutex> lock(doneMutex), and the re-acquisition on a wake-up.
MainLock ==
    /\ ~aborted
    /\ mainPc = "wait_lock"
    /\ doneMutex = {}
    /\ doneMutex' = {Main}
    /\ mainPc' = "wait_pred"
    /\ UNCHANGED <<inputVars, indegree, done, queueVars, indegreeMutex, cv_done,
                   spawned, joined, pc, jobId, finishedCount, k, aborted, histVars>>

\* cv_done.wait evaluates its predicate holding doneMutex: when it holds, wait
\* returns and the block's end unlocks; otherwise the thread is about to block.
MainPred ==
    /\ ~aborted
    /\ mainPc = "wait_pred"
    /\ IF AllDone(done, total)
         THEN /\ doneMutex' = {}
              /\ mainPc' = "set_finished"
         ELSE /\ mainPc' = "wait_block"
              /\ UNCHANGED doneMutex
    /\ UNCHANGED <<inputVars, indegree, done, queueVars, indegreeMutex, cv_done,
                   spawned, joined, pc, jobId, finishedCount, k, aborted, histVars>>

\* condition_variable::wait(lock): atomically unlock doneMutex and block.
MainBlock ==
    /\ ~aborted
    /\ mainPc = "wait_block"
    /\ doneMutex' = {}
    /\ cv_done' = cv_done \cup {Main}
    /\ mainPc' = "waiting"
    /\ UNCHANGED <<inputVars, indegree, done, queueVars, indegreeMutex,
                   spawned, joined, pc, jobId, finishedCount, k, aborted, histVars>>

\* A spurious wake-up of cv_done.wait.
MainSpuriousWake ==
    /\ ~aborted
    /\ mainPc = "waiting"
    /\ cv_done' = cv_done \ {Main}
    /\ mainPc' = "wait_lock"
    /\ UNCHANGED <<inputVars, indegree, done, queueVars, indegreeMutex, doneMutex,
                   spawned, joined, pc, jobId, finishedCount, k, aborted, histVars>>

\* A variant of set_finished's store that flips the flag instead of setting it.
SetFinishedToggle ==
    /\ ~aborted
    /\ mainPc = "set_finished"
    /\ finished' = ~finished
    /\ mainPc' = "notify_all"
    /\ finishCalls' = finishCalls + 1
    /\ UNCHANGED <<inputVars, indegree, done, q, m, cv, indegreeMutex, doneMutex,
                   cv_done, spawned, joined, pc, jobId, finishedCount, k, aborted,
                   startCount, endCount, pushCount>>

\* ready.set_finished(), first statement: finished = true (m is not held).
SetFinished ==
    /\ ~aborted
    /\ mainPc = "set_finished"
    /\ finished' = TRUE
    /\ mainPc' = "notify_all"
    /\ finishCalls' = finishCalls + 1
    /\ UNCHANGED <<inputVars, indegree, done, q, m, cv, indegreeMutex, doneMutex,
                   cv_done, spawned, joined, pc, jobId, finishedCount, k, aborted,
                   startCount, endCount, pushCount>>

\* ready.set_finished(), second statement: cv.notify_all() wakes the workers
\* that are blocked in pop at this moment; each must re-acquire m.
NotifyAllWorkers ==
    /\ ~aborted
    /\ mainPc = "notify_all"
    /\ pc' = [w \in Workers |-> IF w \in cv THEN "pop" ELSE pc[w]]
    /\ cv' = {}
    /\ mainPc' = "join"
    /\ UNCHANGED <<inputVars, indegree, done, q, finished, m, indegreeMutex,
                   doneMutex, cv_done, spawned, joined, jobId, finishedCount, k,
                   aborted, histVars>>

\* t.join() for the next worker, in the order of the vector; after the last
\* one execute prints its message and returns.
Join1 ==
    /\ ~aborted
    /\ mainPc = "join"
    /\ joined < nThreads
    /\ pc[joined + 1] = "exited"
    /\ joined' = joined + 1
    /\ mainPc' = IF joined + 1 = nThreads THEN "returned" ELSE "join"
    /\ UNCHANGED <<inputVars, indegree, done, queueVars, indegreeMutex, doneMutex,
                   cv_done, spawned, pc, jobId, finishedCount, k, aborted, histVars>>

\* ------------------------------------------------------ worker threads

\* A variant of pop that leaves the front element in the queue.
KeepFront(s) == s

\* q.pop() in ConcurrentQueue::pop: the queue without its front element.
PopFront(s) == Tail(s)

\* A variant of the test on a decremented counter that also fires at 1.
UnlockedEarly(n) == n <= 1

\* The worker's test after indegree[dep]--: indegree[dep] == 0.
Unlocked(n) == n = 0

\* A variant of pop's exit test that gives up as soon as the queue is finished.
NoMoreWorkOnFinish(fin, queue) == fin

\* pop's test after the wait: finished && q.empty().
NoMoreWork(fin, queue) == fin /\ queue = <<>>

\* The predicate of pop's cv.wait: !q.empty() || finished.load().
WaitOver(fin, queue) == queue # <<>> \/ fin

\* ready.pop(jobId): unique_lock<mutex> lock(m), also on a wake-up.
PopLock(w) ==
    /\ ~aborted
    /\ pc[w] = "pop"
    /\ m = {}
    /\ m' = {w}
    /\ pc' = [pc EXCEPT ![w] = "pop_pred"]
    /\ UNCHANGED <<inputVars, indegree, done, q, finished, cv, indegreeMutex,
                   doneMutex, cv_done, mainVars, jobId, finishedCount, k, aborted,
                   histVars>>

\* cv.wait's predicate !q.empty() || finished.load(), evaluated holding m.
\* With an item: front is moved out, q.pop(), pop returns true and the worker
\* calls jobMap[jobId]->doWork() (for a listed job operator[] is a lookup
\* that inserts nothing; for an id that is no job it inserts a null pointer,
\* and no call of doWork begins).  Finished and empty: pop returns false and
\* the worker returns.  Neither: the worker is about to block.
PopPred(w) ==
    /\ ~aborted
    /\ pc[w] = "pop_pred"
    /\ IF ~WaitOver(finished, q)
         THEN /\ pc' = [pc EXCEPT ![w] = "pop_block"]
              /\ UNCHANGED <<jobId, q, m, startCount>>
         ELSE IF NoMoreWork(finished, q)
                THEN /\ m' = {}
                     /\ pc' = [pc EXCEPT ![w] = "exited"]
                     /\ UNCHANGED <<jobId, q, startCount>>
                ELSE /\ jobId' = [jobId EXCEPT ![w] = Head(q)]
                     /\ q' = PopFront(q)
                     /\ m' = {}
                     /\ pc' = [pc EXCEPT ![w] = "run"]
                     /\ startCount' = [startCount EXCEPT ![Head(q)] =
                                          IF Head(q) \in Range(jobs) THEN @ + 1 ELSE @]
    /\ UNCHANGED <<inputVars, indegree, done, finished, cv, indegreeMutex,
                   doneMutex, cv_done, mainVars, finishedCount, k, aborted,
                   endCount, pushCount, finishCalls>>

\* condition_variable::wait(lock): atomically unlock m and block on cv.
PopBlock(w) ==
    /\ ~aborted
    /\ pc[w] = "pop_block"
    /\ m' = {}
    /\ cv' = cv \cup {w}
    /\ pc' = [pc EXCEPT ![w] = "pop_waiting"]
    /\ UNCHANGED <<inputVars, indegree, done, q, finished, indegreeMutex,
                   doneMutex, cv_done, mainVars, jobId, finishedCount, k, aborted,
                   histVars>>

\* A spurious wake-up of cv.wait in pop.
SpuriousWake(w) ==
    /\ ~aborted
    /\ pc[w] = "pop_waiting"
    /\ cv' = cv \ {w}
    /\ pc' = [pc EXCEPT ![w] = "pop"]
    /\ UNCHANGED <<inputVars, indegree, done, q, finished, m, indegreeMutex,
                   doneMutex, cv_done, mainVars, jobId, finishedCount, k, aborted,
                   histVars>>

\* job->doWork() ends: it returns, or it throws.  Nothing in worker catches,
\* so the exception leaves the thread's function and std::terminate is called.
\* For an id that is no job, job is the null pointer jobMap[jobId] inserted and
\* job->doWork() reads through it: the access faults and the process dies.
DoWork(w) ==
    /\ ~aborted
    /\ pc[w] = "run"
    /\ IF jobId[w] \notin Range(jobs)
         THEN /\ pc' = [pc EXCEPT ![w] = "nullderef"]
              /\ UNCHANGED endCount
         ELSE IF jobId[w] \in failing
                THEN /\ pc' = [pc EXCEPT ![w] = "terminate"]
                     /\ UNCHANGED endCount
                ELSE /\ pc' = [pc EXCEPT ![w] = "inc"]
                     /\ endCount' = [endCount EXCEPT ![jobId[w]] = @ + 1]
    /\ UNCHANGED <<inputVars, indegree, done, queueVars, indegreeMutex, doneMutex,
                   cv_done, mainVars, jobId, finishedCount, k, aborted,
                   startCount, pushCount, finishCalls>>

\* std::terminate (or the fault of a null access) ends the process: no thread
\* takes another step.
Abort ==
    /\ ~aborted
    /\ \E w \in Workers : pc[w] \in {"terminate", "nullderef"}
    /\ aborted' = TRUE
    /\ UNCHANGED <<inputVars, indegree, done, queueVars, indegreeMutex, doneMutex,
                   cv_done, mainVars, pc, jobId, finishedCount, k, histVars>>

\* A variant of the increment that keeps the value done had before it (done++).
IncDonePost(w) ==
    /\ ~aborted
    /\ pc[w] = "inc"
    /\ done' = done + 1
    /\ finishedCount' = [finishedCount EXCEPT ![w] = done]
    /\ pc' = [pc EXCEPT ![w] = IF done = total THEN "done_lock" ELSE "indeg_lock"]
    /\ UNCHANGED <<inputVars, indegree, queueVars, indegreeMutex, doneMutex,
                   cv_done, mainVars, jobId, k, aborted, histVars>>

\* int finishedCount = ++done; and the test finishedCount == total.
IncDone(w) ==
    /\ ~aborted
    /\ pc[w] = "inc"
    /\ done' = done + 1
    /\ finishedCount' = [finishedCount EXCEPT ![w] = done + 1]
    /\ pc' = [pc EXCEPT ![w] = IF done + 1 = total THEN "done_lock" ELSE "indeg_lock"]
    /\ UNCHANGED <<inputVars, indegree, queueVars, indegreeMutex, doneMutex,
                   cv_done, mainVars, jobId, k, aborted, histVars>>

\* A variant of the lock before the notification that does not wait for doneMutex.
DoneLockSkipped(w) ==
    /\ ~aborted
    /\ pc[w] = "done_lock"
    /\ pc' = [pc EXCEPT ![w] = "done_notify"]
    /\ UNCHANGED <<inputVars, indegree, done, queueVars, indegreeMutex, doneMutex,
                   cv_done, mainVars, jobId, finishedCount, k, aborted, histVars>>

\* unique_lock<mutex> lock(doneMutex) of the worker that counted the last job.
DoneLock(w) ==
    /\ ~aborted
    /\ pc[w] = "done_lock"
    /\ doneMutex = {}
    /\ doneMutex' = {w}
    /\ pc' = [pc EXCEPT ![w] = "done_notify"]
    /\ UNCHANGED <<inputVars, indegree, done, queueVars, indegreeMutex,
                   cv_done, mainVars, jobId, finishedCount, k, aborted, histVars>>

\* cv_done.notify_all() and the end of the block, which unlocks doneMutex.
DoneNotify(w) ==
    /\ ~aborted
    /\ pc[w] = "done_notify"
    /\ mainPc' = IF Main \in cv_done THEN "wait_lock" ELSE mainPc
    /\ cv_done' = {}
    /\ doneMutex' = doneMutex \ {w}
    /\ pc' = [pc EXCEPT ![w] = "indeg_lock"]
    /\ UNCHANGED <<inputVars, indegree, done, queueVars, indegreeMutex,
                   spawned, joined, jobId, finishedCount, k, aborted, histVars>>

\* lock_guard<mutex> lock(indegreeMutex).
IndegLock(w) ==
    /\ ~aborted
    /\ pc[w] = "indeg_lock"
    /\ indegreeMutex = {}
    /\ indegreeMutex' = {w}
    /\ k' = [k EXCEPT ![w] = 1]
    /\ pc' = [pc EXCEPT ![w] = "indeg_loop"]
    /\ UNCHANGED <<inputVars, indegree, done, queueVars, doneMutex, cv_done,
                   mainVars, jobId, finishedCount, aborted, histVars>>

\* One iteration of the loop over adj[jobId]: indegree[dep]--, and when the
\* counter is 0 the first half of ready.push(dep): lock m, q.push, unlock.
IndegStep(w) ==
    /\ ~aborted
    /\ pc[w] = "indeg_loop"
    /\ k[w] <= Len(adj[jobId[w]])
    /\ LET dep == adj[jobId[w]][k[w]]
       IN /\ indegree' = [indegree EXCEPT ![dep] = @ - 1]
          /\ IF Unlocked(indegree[dep] - 1)
               THEN /\ m = {}
                    /\ q' = Append(q, dep)
                    /\ pushCount' = [pushCount EXCEPT ![dep] = @ + 1]
                    /\ pc' = [pc EXCEPT ![w] = "push_notify"]
                    /\ UNCHANGED k
               ELSE /\ k' = [k EXCEPT ![w] = @ + 1]
                    /\ UNCHANGED <<q, pushCount, pc>>
    /\ UNCHANGED <<inputVars, done, finished, m, cv, indegreeMutex, doneMutex,
                   cv_done, mainVars, jobId, finishedCount, aborted, startCount,
                   endCount, finishCalls>>

\* The second half of ready.push(dep): cv.notify_one() wakes one of the
\* workers blocked in pop, if there is one.
PushNotify(w) ==
    /\ ~aborted
    /\ pc[w] = "push_notify"
    /\ IF cv = {}
         THEN /\ pc' = [pc EXCEPT ![w] = "indeg_loop"]
              /\ UNCHANGED cv
         ELSE \E x \in cv :
                /\ cv' = cv \ {x}
                /\ pc' = [pc EXCEPT ![w] = "indeg_loop", ![x] = "pop"]
    /\ k' = [k EXCEPT ![w] = @ + 1]
    /\ UNCHANGED <<inputVars, indegree, done, q, finished, m, indegreeMutex,
                   doneMutex, cv_done, mainVars, jobId, finishedCount, aborted,
                   histVars>>

\* A variant of the end of the block that keeps indegreeMutex locked.
IndegUnlockKept(w) ==
    /\ ~aborted
    /\ pc[w] = "indeg_loop"
    /\ k[w] > Len(adj[jobId[w]])
    /\ pc' = [pc EXCEPT ![w] = "pop"]
    /\ UNCHANGED <<inputVars, indegree, done, queueVars, indegreeMutex, doneMutex,
                   cv_done, mainVars, jobId, finishedCount, k, aborted, histVars>>

\* The end of the block after the loop unlocks indegreeMutex; the worker
\* goes back to ready.pop.
IndegUnlock(w) ==
    /\ ~aborted
    /\ pc[w] = "indeg_loop"
    /\ k[w] > Len(adj[jobId[w]])
    /\ indegreeMutex' = {}
    /\ pc' = [pc EXCEPT ![w] = "pop"]
    /\ UNCHANGED <<inputVars, indegree, done, queueVars, doneMutex, cv_done,
                   mainVars, jobId, finishedCount, k, aborted, histVars>>

\* ------------------------------------------------------- specifications

MainStep ==
    \/ Spawn
    \/ MainLock
    \/ MainPred
    \/ MainBlock
    \/ SetFinished
    \/ NotifyAllWorkers
    \/ Join1

WorkerStep(w) ==
    \/ PopLock(w)
    \/ PopPred(w)
    \/ PopBlock(w)
    \/ DoWork(w)
    \/ IncDone(w)
    \/ DoneLock(w)
    \/ DoneNotify(w)
    \/ IndegLock(w)
    \/ IndegStep(w)
    \/ PushNotify(w)
    \/ IndegUnlock(w)

Next ==
    \/ MainStep
    \/ \E w \in Workers : WorkerStep(w)
    \/ Abort
    \/ MainSpuriousWake
    \/ \E w \in Workers : SpuriousWake(w)

Spec == Init /\ [][Next]_vars

\* Every thread that can take a step eventually takes one, and a process in
\* which std::terminate was called is aborted.  A spurious wake-up is allowed
\* but never owed.
FairSpec ==
    /\ Spec
    /\ WF_vars(MainStep)
    /\ \A w \in Workers : WF_vars(WorkerStep(w))
    /\ WF_vars(Abort)

RECURSIVE SumOver(_, _)
\* The sum of f over the finite set S.
SumOver(f, S) ==
    IF S = {} THEN 0
    ELSE LET x == CHOOSE y \in S : TRUE
         IN f[x] + SumOver(f, S \ {x})

\* ------------------------------------------- ConcurrentQueue on its own
\* The class used through its public interface by one producing thread (Main),
\* which calls push and set_finished in any order, and by consumer threads that
\* call pop in a loop.  jobs holds the ids the producer pushes.

QueueItems == <<1, 2>>

QueueInit ==
    /\ jobs = QueueItems
    /\ deps = <<>>
    /\ failing = {}
    /\ nThreads \in 1..MaxThreads
    /\ adj = [j \in Range(QueueItems) |-> <<>>]
    /\ indegree = [j \in Range(QueueItems) |-> 0]
    /\ total = 0
    /\ done = 0
    /\ q = <<>>
    /\ finished = FALSE
    /\ m = {}
    /\ cv = {}
    /\ indegreeMutex = {}
    /\ doneMutex = {}
    /\ cv_done = {}
    /\ mainPc = "client"
    /\ spawned = nThreads
    /\ joined = 0
    /\ pc = [w \in Workers |-> IF w <= nThreads THEN "pop" ELSE "unborn"]
    /\ jobId = [w \in Workers |-> 0]
    /\ finishedCount = [w \in Workers |-> 0]
    /\ k = [w \in Workers |-> 0]
    /\ aborted = FALSE
    /\ startCount = [j \in Range(QueueItems) |-> 0]
    /\ endCount = [j \in Range(QueueItems) |-> 0]
    /\ pushCount = [j \in Range(QueueItems) |-> 0]
    /\ finishCalls = 0
    /\ OnlyPipeline

\* push(v): lock_guard on m, q.push(v); the guard's scope ends.  The flag
\* finished is not read.
ClientPush(v) ==
    /\ mainPc = "client"
    /\ SumOver(pushCount, DOMAIN pushCount) < MaxPushes
    /\ m = {}
    /\ q' = Append(q, v)
    /\ pushCount' = [pushCount EXCEPT ![v] = @ + 1]
    /\ mainPc' = "client_notify"
    /\ UNCHANGED <<inputVars, indegree, done, finished, m, cv, indegreeMutex,
                   doneMutex, cv_done, spawned, joined, pc, jobId, finishedCount,
                   k, aborted, startCount, endCount, finishCalls>>

\* push(v), last statement: cv.notify_one() wakes one thread blocked in pop,
\* if there is one.
ClientNotifyOne ==
    /\ mainPc = "client_notify"
    /\ IF cv = {}
         THEN UNCHANGED <<cv, pc>>
         ELSE \E x \in cv :
                /\ cv' = cv \ {x}
                /\ pc' = [pc EXCEPT ![x] = "pop"]
    /\ mainPc' = "client"
    /\ UNCHANGED <<inputVars, indegree, done, q, finished, m, indegreeMutex,
                   doneMutex, cv_done, spawned, joined, jobId, finishedCount, k,
                   aborted, histVars>>

\* The producer calls set_finished(); its two statements are SetFinished and
\* NotifyAllWorkers.
ClientSetFinished ==
    /\ mainPc = "client"
    /\ finishCalls < MaxFinishCalls
    /\ mainPc' = "set_finished"
    /\ UNCHANGED <<inputVars, indegree, done, queueVars, indegreeMutex, doneMutex,
                   cv_done, spawned, joined, pc, jobId, finishedCount, k, aborted,
                   histVars>>

\* set_finished() has returned to the producer.
ClientResume ==
    /\ mainPc = "join"
    /\ mainPc' = "client"
    /\ UNCHANGED <<inputVars, indegree, done, queueVars, indegreeMutex, doneMutex,
                   cv_done, spawned, joined, pc, jobId, finishedCount, k, aborted,
                   histVars>>

\* pop returned true with an item in its out-parameter; the consumer uses it
\* and calls pop again.
Consume(w) ==
    /\ pc[w] = "run"
    /\ endCount' = [endCount EXCEPT ![jobId[w]] = @ + 1]
    /\ pc' = [pc EXCEPT ![w] = "pop"]
    /\ UNCHANGED <<inputVars, indegree, done, queueVars, indegreeMutex, doneMutex,
                   cv_done, mainVars, jobId, finishedCount, k, aborted,
                   startCount, pushCount, finishCalls>>

QueueNext ==
    \/ \E v \in Range(QueueItems) : ClientPush(v)
    \/ ClientNotifyOne
    \/ ClientSetFinished
    \/ SetFinished
    \/ NotifyAllWorkers
    \/ ClientResume
    \/ \E w \in Workers : PopLock(w) \/ PopPred(w) \/ PopBlock(w) \/ Consume(w)
    \/ \E w \in Workers : SpuriousWake(w)

QueueSpec == QueueInit /\ [][QueueNext]_vars

\* The scheduler run on the malformed edge lists.
MalformedSpec == InitMalformed /\ [][Next]_vars

\* ------------------------------------------------------------- claims

JobSet == Range(jobs)

\* The declared prerequisites of job v.
Prereqs(v) == {deps[i][1] : i \in {n \in 1..Len(deps) : deps[n][2] = v}}

\* The positions execute passes through after its completion wait.
PastWait == {"set_finished", "notify_all", "join", "returned"}

\* The positions of a worker inside ready.pop.
InPop == {"pop", "pop_pred", "pop_block", "pop_waiting"}

\* The positions of a worker between the return of doWork and the unlock of
\* indegreeMutex.
AfterWork == {"inc", "done_lock", "done_notify", "indeg_lock", "indeg_loop", "push_notify"}

\* Job u has run and the worker that ran it has left the loop over adj[u].
Released(u) ==
    /\ endCount[u] >= 1
    /\ \A w \in Workers : jobId[w] = u => pc[w] \notin AfterWork

\* C1: no job's callable is invoked more than once, and when execute has
\* returned every listed job's callable has been invoked, and has returned,
\* exactly once.
C1_ExecutedOnce ==
    /\ \A j \in JobSet : startCount[j] <= 1
    /\ mainPc = "returned" =>
          \A j \in JobSet : startCount[j] = 1 /\ endCount[j] = 1

C1_Witness ==
    /\ mainPc = "returned"
    /\ total = 4
    /\ nThreads >= 2
    /\ \A j \in JobSet : endCount[j] = 1

\* C2: for every edge u -> v, job v is on the ready queue, has been pushed or
\* has started only if the callable of u has returned.
C2_PrerequisitesFirst ==
    \A i \in 1..Len(deps) :
        LET u == deps[i][1]
            v == deps[i][2]
        IN (startCount[v] > 0 \/ pushCount[v] > 0 \/ v \in Range(q)) => endCount[u] >= 1

C2_Witness ==
    \E w \in Workers :
        /\ pc[w] = "run"
        /\ Cardinality(Prereqs(jobId[w])) = 2
        /\ \A u \in Prereqs(jobId[w]) : endCount[u] = 1

\* C3: with at least one job and no failing job, under fair scheduling execute
\* eventually returns (every worker has exited and been joined).
C3_ExecuteReturns == (failing = {} /\ total >= 1) => <>(mainPc = "returned")

\* C4: every job is pushed at most once; it has been pushed exactly when its
\* remaining-dependency count is 0, so the push is made by the worker whose
\* decrement reaches 0; and it has been pushed once all its prerequisites
\* have run and their workers have left the loop over their dependents.
C4_PushedExactlyOnce ==
    /\ \A j \in JobSet :
          /\ pushCount[j] <= 1
          /\ pushCount[j] = 1 <=> indegree[j] = 0
          /\ (\A u \in Prereqs(j) : Released(u)) => pushCount[j] = 1
    /\ \A w \in Workers :
          pc[w] = "push_notify" => indegree[adj[jobId[w]][k[w]]] = 0

C4_Witness ==
    \E w1 \in Workers : \E w2 \in Workers \ {w1} :
        /\ pc[w1] = "push_notify"
        /\ pc[w2] = "pop"
        /\ jobId[w1] # jobId[w2]
        /\ {jobId[w1], jobId[w2]} \subseteq Prereqs(adj[jobId[w1]][k[w1]])
        /\ pushCount[adj[jobId[w1]][k[w1]]] = 1

\* C5: once the ready queue is marked finished, every worker that is inside
\* pop eventually leaves it with "no more work" and exits.
C5_FinishedReleasesConsumers ==
    \A w \in Workers : (finished /\ pc[w] \in InPop) ~> (pc[w] = "exited")

\* C6: when the finished count has reached total, execute eventually gets
\* past its completion wait.
C6_CompletionWakeup == (done >= total) ~> (mainPc \in PastWait)

C6_Witness ==
    /\ mainPc = "wait_block"
    /\ total > 0
    /\ done = total
    /\ \E w \in Workers : pc[w] = "done_lock"

\* C7: execute is past its completion wait, or the ready queue is marked
\* finished, only when the finished count equals total, every job's callable
\* has returned, the ready queue is empty and no job is running.
C7_SuccessOnlyWhenAllDone ==
    (mainPc \in PastWait \/ finished) =>
        /\ done = total
        /\ q = <<>>
        /\ \A w \in Workers : pc[w] # "run"
        /\ \A j \in JobSet : endCount[j] = 1

C7_Witness ==
    /\ mainPc = "returned"
    /\ total = 3
    /\ done = 3
    /\ finished

\* C8: a failing callable never takes a worker thread or the process down.
C8_FailureCaught ==
    /\ ~aborted
    /\ \A w \in Workers : pc[w] # "terminate"

RECURSIVE ReachFrom(_, _)
\* S with everything reached from it along at most n further edges.
ReachFrom(S, n) ==
    IF n = 0 THEN S
    ELSE ReachFrom(S \cup UNION {Range(adj[u]) : u \in S}, n - 1)

\* The transitive dependents of job x.
Reach(x) == ReachFrom(Range(adj[x]), Len(jobs))

\* The jobs whose callable has thrown.
Failed == {jobId[w] : w \in {x \in Workers : pc[x] = "terminate"}}

\* C9: when job x has failed, none of its transitive dependents has been
\* pushed or started and all of its prerequisites have run; and when the run
\* of the diamond with job 3 failing is over, job 4 has not run and jobs 1 and
\* 2 have.
C9_FailureIsolation ==
    /\ \A x \in Failed :
          /\ \A y \in Reach(x) : pushCount[y] = 0 /\ startCount[y] = 0
          /\ \A u \in Prereqs(x) : endCount[u] = 1
    /\ (aborted /\ jobs = Diamond.jobs /\ deps = Diamond.deps /\ failing = {3}) =>
          /\ startCount[4] = 0
          /\ endCount[1] = 1
          /\ endCount[2] = 1

\* C10: when several jobs have failed in one run, execute eventually returns
\* (with the outcome that carries the first reported error).
C10_FirstErrorReported == (Cardinality(Failed) >= 2) ~> (mainPc = "returned")

\* C11: once a job's callable has failed, no callable is started and no
\* dependent is pushed onto the ready queue.
C11_NoStartAfterFailure ==
    [][(Failed # {}) => (startCount' = startCount /\ pushCount' = pushCount)]_vars

\* C12: after a job has failed the scheduler is never stuck before execute
\* has returned: some thread can still take a step.
C12_NoDeadlockOnFailure ==
    (Failed # {}) => (mainPc = "returned" \/ ENABLED Next)

\* The number of listed jobs whose callable has returned.
Completed == SumOver(endCount, JobSet)

\* The workers whose increment of done returned total.
Observers == {w \in Workers : total > 0 /\ finishedCount[w] = total}

\* C18 as stated: in every reachable state done equals the number of jobs
\* whose callable has returned, done is at most total, at most one increment
\* has observed total, and exactly one has once done equals total.
C18_DoneEqualsCompleted ==
    /\ done = Completed
    /\ done <= total
    /\ Cardinality(Observers) <= 1
    /\ (done = total /\ total > 0) => Cardinality(Observers) = 1

\* C18, amended: done equals the number of jobs whose callable has returned
\* less the workers that are between that return and ++done; the rest as
\* stated.
C18_DoneCountsReturnedJobs ==
    /\ done = Completed - Cardinality({w \in Workers : pc[w] = "inc"})
    /\ done <= total
    /\ Cardinality(Observers) <= 1
    /\ (done = total /\ total > 0) => Cardinality(Observers) = 1

C18_Witness ==
    /\ total = 4
    /\ done = 1
    /\ Completed = 3
    /\ Cardinality({w \in Workers : pc[w] = "inc"}) = 2

\* C19: when every job has been counted, every job has been pushed exactly
\* once, so the pushes number total; before that they never exceed it.
C19_OnePushPerJob ==
    /\ SumOver(pushCount, DOMAIN pushCount) <= total
    /\ done = total =>
          /\ \A j \in JobSet : pushCount[j] = 1
          /\ SumOver(pushCount, DOMAIN pushCount) = total

C19_Witness ==
    /\ mainPc = "returned"
    /\ deps = Chain.deps
    /\ pushCount = <<1, 1>>

\* C20: once execute is past its completion wait, and so when it returns, the
\* remaining-dependency counter of every job is 0 and no worker has a
\* decrement left to apply.
C20_IndegreeDrained ==
    mainPc \in PastWait =>
        /\ \A j \in DOMAIN indegree : indegree[j] = 0
        /\ \A w \in Workers :
              /\ pc[w] \in {"inc", "done_lock", "done_notify", "indeg_lock"} =>
                    adj[jobId[w]] = <<>>
              /\ pc[w] = "indeg_loop" => k[w] > Len(adj[jobId[w]])

C20_Witness ==
    /\ mainPc = "returned"
    /\ deps = Join.deps
    /\ \A j \in JobSet : indegree[j] = 0 /\ endCount[j] = 1

\* The ids the edge list names that are not in the job list.
UnknownIds ==
    ({deps[i][1] : i \in 1..Len(deps)} \cup {deps[i][2] : i \in 1..Len(deps)}) \ JobSet

\* The positions of execute in its completion wait.
InWait == {"wait_lock", "wait_pred", "wait_block", "waiting"}

\* C13: with an edge that names an id absent from the job list, no worker
\* thread is started, no callable runs, and no absent id is pushed onto or
\* popped from the ready queue.
C13_UnknownIdRejected ==
    UnknownIds # {} =>
        /\ spawned = 0
        /\ \A j \in JobSet : startCount[j] = 0
        /\ \A x \in UnknownIds :
              /\ pushCount[x] = 0
              /\ x \notin Range(q)
              /\ \A w \in Workers : jobId[w] # x

\* C14: execute is never in its completion wait while a job that lies on a
\* cycle of the edge list still has a nonzero remaining-dependency count.
C14_CycleRejected ==
    \A j \in JobSet :
        j \in Reach(j) => ~(mainPc \in InWait /\ indegree[j] > 0)

\* C15: a pop call returns false only when the queue is finished and empty;
\* when it evaluates its wait with an item in the queue it returns the front
\* item, finished or not; with the queue empty and not finished it does not
\* return but blocks.
C15_PopContract ==
    [][\A w \in Workers :
          (pc[w] = "pop_pred" /\ pc'[w] # "pop_pred") =>
              /\ pc'[w] = "exited" => (finished /\ q = <<>>)
              /\ q # <<>> => (pc'[w] = "run" /\ jobId'[w] = Head(q) /\ q' = Tail(q))
              /\ (q = <<>> /\ ~finished) => pc'[w] = "pop_block"]_vars

\* One consumer has been told there is no more work, and another holds m in
\* pop on a finished queue that has a backlog.
C15_Witness ==
    /\ finished
    /\ q # <<>>
    /\ \E w \in Workers : pc[w] = "exited"
    /\ \E w \in Workers : pc[w] = "pop_pred"

\* C16: a push made while the queue is marked finished enqueues nothing: no
\* step taken with finished set makes the queue longer.
C16_PushAfterFinishedIsNoOp ==
    [][finished => Len(q') <= Len(q)]_vars

\* C17: a call of set_finished on a queue that is already finished changes
\* neither the items nor the flag, and the flag, once set, stays set, so that
\* pop calls made afterwards see the state one call leaves.
C17_SetFinishedIdempotent ==
    [][/\ finished => finished'
       /\ (finished /\ mainPc \in {"set_finished", "notify_all"} /\ mainPc' # mainPc)
             => (q' = q /\ finished' = finished)]_vars

\* set_finished has been called twice and the second call has returned.
C17_Witness ==
    /\ finishCalls = 2
    /\ mainPc = "join"
    /\ finished

\* C21: indegreeMutex is held only by a worker inside the loop over the
\* dependents of the job it has finished; a worker that is calling a job's
\* callable, or is in pop, does not hold it.
C21_NoWorkUnderIndegreeMutex ==
    \A w \in Workers :
        w \in indegreeMutex => pc[w] \in {"indeg_loop", "push_notify"}

\* Two jobs of the diamond are being executed at the same time.
C21_Witness ==
    /\ deps = Diamond.deps
    /\ \E w1 \in Workers : \E w2 \in Workers :
          /\ w1 # w2
          /\ pc[w1] = "run" /\ pc[w2] = "run"
          /\ jobId[w1] = 2 /\ jobId[w2] = 3

\* C22: no remaining-dependency counter is ever negative, and a counter
\* changes only by a decrement of one, made by the worker that has run one of
\* the job's declared prerequisites and is at that edge in its loop.
C22_IndegreeNeverNegative ==
    /\ [](\A j \in DOMAIN indegree : indegree[j] >= 0)
    /\ [][\A j \in DOMAIN indegree :
             indegree'[j] # indegree[j] =>
                 /\ indegree'[j] = indegree[j] - 1
                 /\ \E w \in Workers :
                       /\ pc[w] = "indeg_loop"
                       /\ k[w] <= Len(adj[jobId[w]])
                       /\ adj[jobId[w]][k[w]] = j
                       /\ jobId[w] \in Prereqs(j)
                       /\ endCount[jobId[w]] = 1]_vars

\* Both prerequisites of the join's last job have run and one of the two
\* edges has been counted down.
C22_Witness ==
    /\ deps = Join.deps
    /\ indegree[3] = 1
    /\ endCount[1] = 1
    /\ endCount[2] = 1

\* The number of times id j occurs in the sequence s.
Occurrences(s, j) == Cardinality({i \in 1..Len(s) : s[i] = j})

\* C23: before a worker thread has been started the ready queue holds the jobs
\* without a prerequisite, each once, and nothing else.
C23_SeededWithRoots ==
    spawned = 0 =>
        /\ Range(q) \subseteq JobSet
        /\ \A j \in JobSet :
              Occurrences(q, j) = IF Prereqs(j) = {} THEN 1 ELSE 0

\* The join, constructed and not yet started: its two roots are queued.
C23_Witness ==
    /\ spawned = 0
    /\ deps = Join.deps
    /\ q = <<1, 2>>
    /\ indegree[3] = 2

\* C26: the queue changes only by a push that appends at the back or by a
\* pop that removes the front item and returns that item.
C26_QueueIsFifo ==
    [][/\ q' # q => ((q # <<>> /\ q' = Tail(q)) \/ \E v \in DOMAIN pushCount : q' = Append(q, v))
       /\ \A w \in Workers :
             (pc[w] = "pop_pred" /\ pc'[w] = "run") =>
                 (q # <<>> /\ jobId'[w] = Head(q) /\ q' = Tail(q))]_vars

\* Both ids have been pushed; a consumer has been handed 1 while 2 is queued.
C26_Witness ==
    /\ mainPc = "client"
    /\ pushCount = <<1, 1>>
    /\ q = <<2>>
    /\ \E w \in Workers : pc[w] = "run" /\ jobId[w] = 1

\* C27: with an empty job list, under fair scheduling execute returns.
C27_EmptyListReturns == (total = 0) ~> (mainPc = "returned")

\* ------------------------------------------- task_execution.cpp: Worker
\* A pool of numThreads threads running workerLoop, and one client thread
\* (Main) that submits nTasks tasks, calls blockUntilComplete and then lets
\* the pool be destroyed.  Tasks are numbered 1..nTasks.

\* A step of this program: the Worker object becomes r, nothing else changes.
TaskStep(r) ==
    /\ taskWorker' = r
    /\ UNCHANGED <<pipelineVars, buddyAllocator, webCrawler, playGround, batchScheduler,
                 scheduler, chunkCopy, taskManager>>

\* Worker(numThreads): stop(false), submittedCount(0), completedCount(0), and
\* the threads are started.
TaskInit ==
    /\ \E n \in 1..MaxThreads : \E t \in 0..MaxTasks :
          taskWorker = [numThreads |-> n,
                        nTasks |-> t,
                        tasks |-> <<>>,
                        mtx |-> {},
                        cv |-> {},
                        stop |-> FALSE,
                        submittedCount |-> 0,
                        completedCount |-> 0,
                        doneMtx |-> {},
                        doneCv |-> {},
                        callerPc |-> "submit",
                        pc |-> [w \in Workers |-> IF w <= n THEN "loop" ELSE "unborn"],
                        task |-> [w \in Workers |-> 0],
                        ran |-> [i \in 1..t |-> 0]]
    /\ InitWith(EmptyGraph, 1, {})
    /\ buddyAllocator = NotConstructed
    /\ webCrawler = NotConstructed
    /\ playGround = NotConstructed
    /\ batchScheduler = NotConstructed
    /\ scheduler = NotConstructed
    /\ chunkCopy = NotConstructed
    /\ taskManager = NotConstructed

\* submitWork, the block under mtx: tasks.push(task); submittedCount++.
SubmitWork ==
    LET W == taskWorker
    IN /\ W.callerPc = "submit"
       /\ W.submittedCount < W.nTasks
       /\ W.mtx = {}
       /\ TaskStep([W EXCEPT !.tasks = Append(@, W.submittedCount + 1),
                             !.submittedCount = @ + 1,
                             !.callerPc = "submit_notify"])

\* submitWork: cv.notify_one().
SubmitNotify ==
    LET W == taskWorker
    IN /\ W.callerPc = "submit_notify"
       /\ IF W.cv = {}
            THEN TaskStep([W EXCEPT !.callerPc = "submit"])
            ELSE \E x \in W.cv :
                   TaskStep([W EXCEPT !.cv = @ \ {x},
                                      !.pc[x] = "loop",
                                      !.callerPc = "submit"])

\* The client has submitted its tasks and calls blockUntilComplete.
CallBlock ==
    LET W == taskWorker
    IN /\ W.callerPc = "submit"
       /\ W.submittedCount = W.nTasks
       /\ TaskStep([W EXCEPT !.callerPc = "block_lock"])

\* blockUntilComplete: unique_lock on doneMtx, also after a wake-up.
BlockLock ==
    LET W == taskWorker
    IN /\ W.callerPc = "block_lock"
       /\ W.doneMtx = {}
       /\ TaskStep([W EXCEPT !.doneMtx = {Main}, !.callerPc = "block_pred"])

\* The predicate of the completion wait.
AllComplete(completed, submitted) == completed = submitted

\* doneCv.wait's predicate, evaluated holding doneMtx; when it holds the
\* function returns and the lock's destructor unlocks doneMtx.
BlockPred ==
    LET W == taskWorker
    IN /\ W.callerPc = "block_pred"
       /\ IF AllComplete(W.completedCount, W.submittedCount)
            THEN TaskStep([W EXCEPT !.doneMtx = {}, !.callerPc = "unblocked"])
            ELSE TaskStep([W EXCEPT !.callerPc = "block_block"])

\* doneCv.wait: doneMtx is released and the client blocks, atomically.
BlockBlock ==
    LET W == taskWorker
    IN /\ W.callerPc = "block_block"
       /\ TaskStep([W EXCEPT !.doneMtx = {}, !.doneCv = {Main},
                             !.callerPc = "block_waiting"])

\* A spurious wake-up of doneCv.wait.
BlockSpuriousWake ==
    LET W == taskWorker
    IN /\ W.callerPc = "block_waiting"
       /\ TaskStep([W EXCEPT !.doneCv = {}, !.callerPc = "block_lock"])

\* ~Worker: stop = true under mtx.
DtorStop ==
    LET W == taskWorker
    IN /\ W.callerPc = "unblocked"
       /\ W.mtx = {}
       /\ TaskStep([W EXCEPT !.stop = TRUE, !.callerPc = "dtor_notify"])

\* ~Worker: cv.notify_all().
DtorNotify ==
    LET W == taskWorker
    IN /\ W.callerPc = "dtor_notify"
       /\ TaskStep([W EXCEPT !.pc = [w \in Workers |->
                                        IF w \in W.cv THEN "loop" ELSE W.pc[w]],
                             !.cv = {},
                             !.callerPc = "dtor_join"])

\* ~Worker: every thread has been joined.
DtorJoin ==
    LET W == taskWorker
    IN /\ W.callerPc = "dtor_join"
       /\ \A w \in 1..W.numThreads : W.pc[w] = "exited"
       /\ TaskStep([W EXCEPT !.callerPc = "destroyed"])

\* workerLoop: unique_lock on mtx, at the top of the loop and after a wake-up.
LoopLock(w) ==
    LET W == taskWorker
    IN /\ W.pc[w] = "loop"
       /\ W.mtx = {}
       /\ TaskStep([W EXCEPT !.mtx = {w}, !.pc[w] = "loop_pred"])

\* A variant of the loop's test that returns on stop alone.
LoopPredStopOnly(w) ==
    LET W == taskWorker
    IN /\ W.pc[w] = "loop_pred"
       /\ IF ~(W.stop \/ W.tasks # <<>>)
            THEN TaskStep([W EXCEPT !.pc[w] = "loop_block"])
            ELSE IF W.stop
                   THEN TaskStep([W EXCEPT !.mtx = {}, !.pc[w] = "exited"])
                   ELSE TaskStep([W EXCEPT !.task[w] = Head(W.tasks),
                                           !.tasks = Tail(@),
                                           !.mtx = {},
                                           !.pc[w] = "task"])

\* cv.wait's predicate stop || !tasks.empty() under mtx; then either the
\* return on stop && tasks.empty(), or the front task is taken and mtx released.
LoopPred(w) ==
    LET W == taskWorker
    IN /\ W.pc[w] = "loop_pred"
       /\ IF ~(W.stop \/ W.tasks # <<>>)
            THEN TaskStep([W EXCEPT !.pc[w] = "loop_block"])
            ELSE IF W.stop /\ W.tasks = <<>>
                   THEN TaskStep([W EXCEPT !.mtx = {}, !.pc[w] = "exited"])
                   ELSE TaskStep([W EXCEPT !.task[w] = Head(W.tasks),
                                           !.tasks = Tail(@),
                                           !.mtx = {},
                                           !.pc[w] = "task"])

\* cv.wait: mtx is released and the thread blocks, atomically.
LoopBlock(w) ==
    LET W == taskWorker
    IN /\ W.pc[w] = "loop_block"
       /\ TaskStep([W EXCEPT !.mtx = {}, !.cv = @ \cup {w}, !.pc[w] = "loop_waiting"])

\* A spurious wake-up of cv.wait.
LoopSpuriousWake(w) ==
    LET W == taskWorker
    IN /\ W.pc[w] = "loop_waiting"
       /\ TaskStep([W EXCEPT !.cv = @ \ {w}, !.pc[w] = "loop"])

\* task() has run to its end: it returned, or it threw and the exception was
\* caught and dropped.
RunTask(w) ==
    LET W == taskWorker
    IN /\ W.pc[w] = "task"
       /\ TaskStep([W EXCEPT !.ran[W.task[w]] = @ + 1, !.pc[w] = "completed"])

\* completedCount++ (no lock is held).
MarkCompletion(w) ==
    LET W == taskWorker
    IN /\ W.pc[w] = "completed"
       /\ TaskStep([W EXCEPT !.completedCount = @ + 1, !.pc[w] = "notify_lock"])

\* A variant of the notification block that does not take doneMtx.
NotifyLockSkipped(w) ==
    LET W == taskWorker
    IN /\ W.pc[w] = "notify_lock"
       /\ TaskStep([W EXCEPT !.pc[w] = "notify"])

\* lock_guard on doneMtx around the notification.
NotifyLock(w) ==
    LET W == taskWorker
    IN /\ W.pc[w] = "notify_lock"
       /\ W.doneMtx = {}
       /\ TaskStep([W EXCEPT !.doneMtx = {w}, !.pc[w] = "notify"])

\* doneCv.notify_all(); the guard's scope ends and the loop starts again.
NotifyDone(w) ==
    LET W == taskWorker
    IN /\ W.pc[w] = "notify"
       /\ TaskStep([W EXCEPT !.callerPc = IF Main \in W.doneCv THEN "block_lock" ELSE @,
                             !.doneCv = {},
                             !.doneMtx = @ \ {w},
                             !.pc[w] = "loop"])

ClientStep ==
    \/ SubmitWork
    \/ SubmitNotify
    \/ CallBlock
    \/ BlockLock
    \/ BlockPred
    \/ BlockBlock
    \/ DtorStop
    \/ DtorNotify
    \/ DtorJoin

LoopStep(w) ==
    \/ LoopLock(w)
    \/ LoopPred(w)
    \/ LoopBlock(w)
    \/ RunTask(w)
    \/ MarkCompletion(w)
    \/ NotifyLock(w)
    \/ NotifyDone(w)

TaskNext ==
    \/ ClientStep
    \/ \E w \in Workers : LoopStep(w)
    \/ BlockSpuriousWake
    \/ \E w \in Workers : LoopSpuriousWake(w)

TaskSpec == TaskInit /\ [][TaskNext]_vars

\* A client that has submitted its tasks lets the Worker be destroyed without
\* calling blockUntilComplete.
DestroyWithoutBlocking ==
    LET W == taskWorker
    IN /\ W.callerPc = "submit"
       /\ W.submittedCount = W.nTasks
       /\ TaskStep([W EXCEPT !.callerPc = "unblocked"])

TaskDtorNext == TaskNext \/ DestroyWithoutBlocking

\* The pool with a client that may or may not wait before the destructor runs.
TaskDtorSpec == TaskInit /\ [][TaskDtorNext]_vars

\* Every thread that can take a step eventually takes one, and a thread that
\* tries to lock a mutex that is free again and again eventually gets it; no
\* wake-up that nobody sent is promised.
TaskFairSpec ==
    /\ TaskSpec
    /\ SF_vars(ClientStep)
    /\ \A w \in Workers : SF_vars(LoopStep(w))

\* C24: blockUntilComplete has returned only if completedCount equals
\* submittedCount and each of the nTasks submitted tasks has finished running;
\* and a client that has called blockUntilComplete is eventually released.
C24_BlockUntilComplete ==
    /\ [](taskWorker.callerPc \in {"unblocked", "dtor_notify", "dtor_join", "destroyed"} =>
             /\ taskWorker.completedCount = taskWorker.submittedCount
             /\ taskWorker.submittedCount = taskWorker.nTasks
             /\ \A i \in 1..taskWorker.nTasks : taskWorker.ran[i] = 1)
    /\ (taskWorker.callerPc = "block_lock") ~>
           (taskWorker.callerPc \in {"unblocked", "dtor_notify", "dtor_join", "destroyed"})

\* The client holds doneMtx, has found the predicate false and has not blocked
\* yet, while a thread has counted the last task and is about to notify.
C24_Witness ==
    /\ taskWorker.callerPc = "block_block"
    /\ taskWorker.nTasks = 2
    /\ taskWorker.completedCount = taskWorker.submittedCount
    /\ \E w \in Workers : taskWorker.pc[w] = "notify_lock"

\* ------------------------------------------- buddyalgo.cpp: BuddyAllocator
\* Memory is measured in units of MIN_BLOCK bytes.  The tree of Nodes is kept
\* as the set of its leaves [offset, size, isFree]: a Node of the tree is a
\* leaf when it is in the set and split when it is not.

BytesPerUnit == 1024

MIN_BLOCK == 1

TOTAL_MEMORY == 16 * 1024 * 1024

INT_MAX == 2147483647

GB == 1024 * 1024

\* The request sizes tried: below MIN_BLOCK, powers of two, a size that is
\* rounded up, and one larger than the memory.
AllocSizes == {0, GB, 2 * GB, 3 * GB, 8 * GB, 32 * GB}

\* The arguments of free tried: a negative index and offsets, in units.
FreeIndexes == {-1, 0, 1, GB}

NullNode == -1

Larger(a, b) == IF a >= b THEN a ELSE b

RECURSIVE DoubleUntil(_, _)
\* The loop while (p < n) p <<= 1.
DoubleUntil(p, n) == IF p < n THEN DoubleUntil(2 * p, n) ELSE p

nextPowerOfTwo(n) == IF n = 0 THEN 1 ELSE DoubleUntil(1, n)

IsLeaf(leaves, off, size) == \E l \in leaves : l.offset = off /\ l.size = size

LeafAt(leaves, off, size) == CHOOSE l \in leaves : l.offset = off /\ l.size = size

RECURSIVE allocateDFS(_, _, _, _)
\* allocateDFS on the Node at off of the given size: the offset of the leaf
\* allocated (or NullNode) and the leaves after the call.
allocateDFS(leaves, off, size, reqSize) ==
    LET half == size \div 2
        split == (leaves \ {LeafAt(leaves, off, size)})
                     \cup {[offset |-> off, size |-> half, isFree |-> TRUE],
                           [offset |-> off + half, size |-> half, isFree |-> TRUE]}
        children(ls) ==
            LET res == allocateDFS(ls, off, half, reqSize)
            IN IF res.node # NullNode THEN res
               ELSE allocateDFS(res.leaves, off + half, half, reqSize)
    IN IF IsLeaf(leaves, off, size)
         THEN IF ~LeafAt(leaves, off, size).isFree THEN [node |-> NullNode, leaves |-> leaves]
              ELSE IF size < reqSize THEN [node |-> NullNode, leaves |-> leaves]
              ELSE IF size = reqSize
                     THEN [node |-> off,
                           leaves |-> (leaves \ {LeafAt(leaves, off, size)})
                                         \cup {[offset |-> off, size |-> size, isFree |-> FALSE]}]
                     ELSE children(split)
         ELSE children(leaves)

RECURSIVE freeDFS(_, _, _, _)
\* freeDFS on the Node at off of the given size: whether a block was freed,
\* and the leaves after the call (with the merges made on the way back).
freeDFS(leaves, off, size, target) ==
    LET half == size \div 2
    IN IF IsLeaf(leaves, off, size)
         THEN IF ~LeafAt(leaves, off, size).isFree /\ off = target
                THEN [freed |-> TRUE,
                      leaves |-> (leaves \ {LeafAt(leaves, off, size)})
                                    \cup {[offset |-> off, size |-> size, isFree |-> TRUE]}]
                ELSE [freed |-> FALSE, leaves |-> leaves]
         ELSE LET l == freeDFS(leaves, off, half, target)
                  r == IF l.freed THEN l ELSE freeDFS(l.leaves, off + half, half, target)
                  lf == [offset |-> off, size |-> half, isFree |-> TRUE]
                  rf == [offset |-> off + half, size |-> half, isFree |-> TRUE]
              IN IF r.freed /\ lf \in r.leaves /\ rf \in r.leaves
                   THEN [freed |-> TRUE,
                         leaves |-> (r.leaves \ {lf, rf})
                                       \cup {[offset |-> off, size |-> size, isFree |-> TRUE]}]
                   ELSE r

\* A step of this program: the allocator becomes r, nothing else changes.
BuddyStep(r) ==
    /\ buddyAllocator' = r
    /\ UNCHANGED <<pipelineVars, taskWorker, webCrawler, playGround, batchScheduler,
                 scheduler, chunkCopy, taskManager>>

\* BuddyAllocator(): the root is one free leaf of TOTAL_MEMORY at offset 0.
BuddyInit ==
    /\ buddyAllocator = [leaves |-> {[offset |-> 0, size |-> TOTAL_MEMORY, isFree |-> TRUE]},
                         calls |-> 0,
                         last |-> "none",
                         result |-> 0]
    /\ InitWith(EmptyGraph, 1, {})
    /\ taskWorker = NotConstructed
    /\ webCrawler = NotConstructed
    /\ playGround = NotConstructed
    /\ batchScheduler = NotConstructed
    /\ scheduler = NotConstructed
    /\ chunkCopy = NotConstructed
    /\ taskManager = NotConstructed

\* off > numeric_limits<int>::max(), for an offset in units of MIN_BLOCK bytes.
OffsetOverflows(off) == off > INT_MAX \div BytesPerUnit

\* alloc(size), size in units (0 stands for a size below MIN_BLOCK).
Alloc(size) ==
    LET B == buddyAllocator
        req == Larger(size, MIN_BLOCK)
        allocSize == nextPowerOfTwo(req)
        res == allocateDFS(B.leaves, 0, TOTAL_MEMORY, allocSize)
    IN /\ B.calls < MaxCalls
       /\ BuddyStep([leaves |-> res.leaves,
                     calls |-> B.calls + 1,
                     last |-> "alloc",
                     result |-> IF res.node = NullNode THEN -1
                                ELSE IF OffsetOverflows(res.node) THEN -1
                                ELSE res.node])

\* free(index), index in units.
Free(index) ==
    LET B == buddyAllocator
    IN /\ B.calls < MaxCalls
       /\ BuddyStep([leaves |-> IF index < 0 THEN B.leaves
                                ELSE freeDFS(B.leaves, 0, TOTAL_MEMORY, index).leaves,
                     calls |-> B.calls + 1,
                     last |-> "free",
                     result |-> 0])

BuddyNext ==
    \/ \E size \in AllocSizes : Alloc(size)
    \/ \E index \in FreeIndexes : Free(index)

BuddySpec == BuddyInit /\ [][BuddyNext]_vars

\* C25: an alloc call that returns -1 leaves the tree as it was.
C25_FailedAllocChangesNothing ==
    [][(buddyAllocator'.calls # buddyAllocator.calls
          /\ buddyAllocator'.last = "alloc"
          /\ buddyAllocator'.result = -1)
         => buddyAllocator'.leaves = buddyAllocator.leaves]_vars

\* ------------------------------------------- webcrawler.cpp: WebCrawler
\* One call of crawl(startUrl, parser) with its queue, its pool of
\* numThreads threads running workerThread, and the calling thread (Main).
\* A URL is a record of its host name and its path.

StartUrl == [host |-> "example.com", path |-> ""]

AboutUrl == [host |-> "example.com", path |-> "/about"]

BlogUrl == [host |-> "example.com", path |-> "/blog"]

ExternalUrl == [host |-> "external.com", path |-> "/home"]

Urls == {StartUrl, AboutUrl, BlogUrl, ExternalUrl}

\* The parser's pages: for every URL the links getUrls returns.
SiteSingle == [u \in Urls |-> <<>>]

SiteChain == [u \in Urls |-> IF u = StartUrl THEN <<AboutUrl>>
                             ELSE IF u = AboutUrl THEN <<BlogUrl, StartUrl>>
                             ELSE <<>>]

SiteMock == [u \in Urls |-> IF u = StartUrl THEN <<BlogUrl, ExternalUrl, AboutUrl>>
                            ELSE IF u = AboutUrl THEN <<StartUrl>>
                            ELSE <<>>]

Sites == {SiteSingle, SiteChain, SiteMock}

getHostName(url) == url.host

\* A step of this program: the crawl becomes r, nothing else changes.
CrawlStep(r) ==
    /\ webCrawler' = r
    /\ UNCHANGED <<pipelineVars, taskWorker, buddyAllocator, playGround, batchScheduler,
                 scheduler, chunkCopy, taskManager>>

\* crawl up to the construction of the pool: startUrl is visited and queued,
\* activeTasks = 1, the threads are started.
CrawlInit ==
    /\ \E site \in Sites : \E n \in 1..MaxThreads :
          webCrawler = [graph |-> site,
                        numThreads |-> n,
                        host |-> getHostName(StartUrl),
                        visited |-> {StartUrl},
                        q |-> <<StartUrl>>,
                        finished |-> FALSE,
                        cv |-> {},
                        visitedMutex |-> {},
                        activeTasks |-> 1,
                        doneMutex |-> {},
                        cv_done |-> {},
                        mainPc |-> "wait_lock",
                        pc |-> [w \in Workers |-> IF w <= n THEN "pop" ELSE "unborn"],
                        url |-> [w \in Workers |-> StartUrl],
                        urls |-> [w \in Workers |-> <<>>],
                        next |-> [w \in Workers |-> 1],
                        snapshot |-> {},
                        raced |-> FALSE,
                        result |-> {}]
    /\ InitWith(EmptyGraph, 1, {})
    /\ taskWorker = NotConstructed
    /\ buddyAllocator = NotConstructed
    /\ playGround = NotConstructed
    /\ batchScheduler = NotConstructed
    /\ scheduler = NotConstructed
    /\ chunkCopy = NotConstructed
    /\ taskManager = NotConstructed

\* crawl: unique_lock on doneMutex, also after a wake-up.
CrawlWaitLock ==
    LET C == webCrawler
    IN /\ C.mainPc = "wait_lock"
       /\ C.doneMutex = {}
       /\ CrawlStep([C EXCEPT !.doneMutex = {Main}, !.mainPc = "wait_pred"])

\* cv_done.wait's predicate activeTasks.load() == 0, holding doneMutex.
CrawlWaitPred ==
    LET C == webCrawler
    IN /\ C.mainPc = "wait_pred"
       /\ IF C.activeTasks = 0
            THEN CrawlStep([C EXCEPT !.doneMutex = {}, !.mainPc = "set_finished"])
            ELSE CrawlStep([C EXCEPT !.mainPc = "wait_block"])

\* cv_done.wait: doneMutex is released and crawl blocks, atomically.
CrawlWaitBlock ==
    LET C == webCrawler
    IN /\ C.mainPc = "wait_block"
       /\ CrawlStep([C EXCEPT !.doneMutex = {}, !.cv_done = {Main}, !.mainPc = "waiting"])

\* A spurious wake-up of cv_done.wait.
CrawlSpuriousWake ==
    LET C == webCrawler
    IN /\ C.mainPc = "waiting"
       /\ CrawlStep([C EXCEPT !.cv_done = {}, !.mainPc = "wait_lock"])

\* queue.setFinished(): finished = true under mtx, then cv.notify_all().
CrawlSetFinished ==
    LET C == webCrawler
    IN /\ C.mainPc = "set_finished"
       /\ CrawlStep([C EXCEPT !.finished = TRUE,
                              !.pc = [w \in Workers |->
                                         IF w \in C.cv THEN "pop" ELSE C.pc[w]],
                              !.cv = {},
                              !.mainPc = "copy"])

\* The return value starts to be built from visited; visitedMutex is not taken.
CopyBegin ==
    LET C == webCrawler
    IN /\ C.mainPc = "copy"
       /\ CrawlStep([C EXCEPT !.snapshot = C.visited, !.raced = FALSE,
                              !.mainPc = "copying"])

\* The return value is complete.  When a worker inserted into visited during
\* the copy the read raced with the write: the vector may hold the set as it
\* was or as it became, or the process may have crashed.
CopyEnd ==
    LET C == webCrawler
    IN /\ C.mainPc = "copying"
       /\ \/ CrawlStep([C EXCEPT !.result = C.snapshot, !.mainPc = "join"])
          \/ /\ C.raced
             /\ \/ CrawlStep([C EXCEPT !.result = C.visited, !.mainPc = "join"])
                \/ CrawlStep([C EXCEPT !.mainPc = "crashed"])

\* ~ThreadPool joins the threads; crawl returns.
CrawlJoin ==
    LET C == webCrawler
    IN /\ C.mainPc = "join"
       /\ \A w \in 1..C.numThreads : C.pc[w] = "exited"
       /\ CrawlStep([C EXCEPT !.mainPc = "returned"])

\* The thread is alive and the process has not crashed.
Running(w) == webCrawler.mainPc # "crashed"

\* queue.pop(url) under mtx: with an item the front is taken; with the queue
\* empty pop returns false when finished and the thread leaves its loop,
\* and otherwise the thread blocks on cv.
CrawlPop(w) ==
    LET C == webCrawler
    IN /\ Running(w)
       /\ C.pc[w] = "pop"
       /\ IF C.q # <<>>
            THEN CrawlStep([C EXCEPT !.url[w] = Head(C.q), !.q = Tail(@),
                                     !.pc[w] = "fetch"])
            ELSE IF C.finished
                   THEN CrawlStep([C EXCEPT !.pc[w] = "exited"])
                   ELSE CrawlStep([C EXCEPT !.cv = @ \cup {w}, !.pc[w] = "pop_waiting"])

\* A spurious wake-up of cv.wait in pop.
CrawlPopSpuriousWake(w) ==
    LET C == webCrawler
    IN /\ Running(w)
       /\ C.pc[w] = "pop_waiting"
       /\ CrawlStep([C EXCEPT !.cv = @ \ {w}, !.pc[w] = "pop"])

\* processUrl: auto urls = parser.getUrls(url).
GetUrls(w) ==
    LET C == webCrawler
    IN /\ Running(w)
       /\ C.pc[w] = "fetch"
       /\ CrawlStep([C EXCEPT !.urls[w] = C.graph[C.url[w]], !.next[w] = 1,
                              !.pc[w] = "links"])

\* One iteration of the loop over urls up to the insertion: a link to another
\* host is skipped; otherwise visitedMutex is locked and visited.insert(next)
\* is made, and a link that was there already ends the iteration.
VisitLink(w) ==
    LET C == webCrawler
        link == C.urls[w][C.next[w]]
    IN /\ Running(w)
       /\ C.pc[w] = "links"
       /\ C.next[w] <= Len(C.urls[w])
       /\ IF getHostName(link) # C.host
            THEN CrawlStep([C EXCEPT !.next[w] = @ + 1])
            ELSE /\ C.visitedMutex = {}
                 /\ IF link \in C.visited
                      THEN CrawlStep([C EXCEPT !.next[w] = @ + 1])
                      ELSE CrawlStep([C EXCEPT !.visited = @ \cup {link},
                                               !.raced = (C.mainPc = "copying") \/ @,
                                               !.visitedMutex = {w},
                                               !.pc[w] = "push"])

\* queue.push(next): q.push under mtx.
PushLink(w) ==
    LET C == webCrawler
    IN /\ Running(w)
       /\ C.pc[w] = "push"
       /\ CrawlStep([C EXCEPT !.q = Append(@, C.urls[w][C.next[w]]),
                              !.pc[w] = "push_notify"])

\* queue.push(next): cv.notify_one().
PushLinkNotify(w) ==
    LET C == webCrawler
    IN /\ Running(w)
       /\ C.pc[w] = "push_notify"
       /\ IF C.cv = {}
            THEN CrawlStep([C EXCEPT !.pc[w] = "incr"])
            ELSE \E x \in C.cv :
                   CrawlStep([C EXCEPT !.cv = @ \ {x},
                                       !.pc = [@ EXCEPT ![x] = "pop", ![w] = "incr"]])

\* activeTasks++.
CountTask(n) == n + 1

\* activeTasks++ after the push; the iteration ends and visitedMutex is released.
IncrActive(w) ==
    LET C == webCrawler
    IN /\ Running(w)
       /\ C.pc[w] = "incr"
       /\ CrawlStep([C EXCEPT !.activeTasks = CountTask(@),
                              !.visitedMutex = {},
                              !.next[w] = @ + 1,
                              !.pc[w] = "links"])

\* processUrl has returned; --activeTasks == 0.
DecrActive(w) ==
    LET C == webCrawler
    IN /\ Running(w)
       /\ C.pc[w] = "links"
       /\ C.next[w] > Len(C.urls[w])
       /\ CrawlStep([C EXCEPT !.activeTasks = @ - 1,
                              !.pc[w] = IF C.activeTasks - 1 = 0 THEN "done_lock" ELSE "pop"])

\* lock_guard on doneMutex of the thread that counted down to 0.
CrawlDoneLock(w) ==
    LET C == webCrawler
    IN /\ Running(w)
       /\ C.pc[w] = "done_lock"
       /\ C.doneMutex = {}
       /\ CrawlStep([C EXCEPT !.doneMutex = {w}, !.pc[w] = "done_notify"])

\* cv_done.notify_one(); the guard's scope ends.
CrawlDoneNotify(w) ==
    LET C == webCrawler
    IN /\ Running(w)
       /\ C.pc[w] = "done_notify"
       /\ CrawlStep([C EXCEPT !.mainPc = IF Main \in C.cv_done THEN "wait_lock" ELSE @,
                              !.cv_done = {},
                              !.doneMutex = {},
                              !.pc[w] = "pop"])

CrawlMainStep ==
    \/ CrawlWaitLock
    \/ CrawlWaitPred
    \/ CrawlWaitBlock
    \/ CrawlSetFinished
    \/ CopyBegin
    \/ CopyEnd
    \/ CrawlJoin

CrawlWorkerStep(w) ==
    \/ CrawlPop(w)
    \/ GetUrls(w)
    \/ VisitLink(w)
    \/ PushLink(w)
    \/ PushLinkNotify(w)
    \/ IncrActive(w)
    \/ DecrActive(w)
    \/ CrawlDoneLock(w)
    \/ CrawlDoneNotify(w)

CrawlNext ==
    \/ CrawlMainStep
    \/ \E w \in Workers : CrawlWorkerStep(w)
    \/ CrawlSpuriousWake
    \/ \E w \in Workers : CrawlPopSpuriousWake(w)

CrawlSpec == CrawlInit /\ [][CrawlNext]_vars

\* The workers that have popped a URL and not yet counted it down.
Processing == {w \in Workers :
                  webCrawler.pc[w] \in {"fetch", "links", "push", "push_notify", "incr"}}

RECURSIVE SameHostReach(_, _, _)
\* The URLs of the start host reachable from the set S through the site's
\* links, following only same-host links, in at most n rounds.
SameHostReach(site, S, n) ==
    IF n = 0 THEN S
    ELSE SameHostReach(site,
                       S \cup {u \in Urls : /\ getHostName(u) = getHostName(StartUrl)
                                            /\ \E v \in S : \E i \in 1..Len(site[v]) :
                                                  site[v][i] = u},
                       n - 1)

CrawlReleased == {"set_finished", "copy", "copying", "join", "returned", "crashed"}

\* C28: activeTasks is 0, or crawl is past its completion wait, only while no
\* URL is queued and no worker is processing one; and the list crawl returns
\* holds every URL of the start host that is reachable from startUrl.
C28_ReleasedOnlyWhenIdle ==
    /\ (webCrawler.activeTasks = 0 \/ webCrawler.mainPc \in CrawlReleased) =>
           (webCrawler.q = <<>> /\ Processing = {})
    /\ webCrawler.mainPc = "returned" =>
           webCrawler.result = SameHostReach(webCrawler.graph, {StartUrl}, Cardinality(Urls))

\* ------------------------------------------- playground.cpp: PlayGround
\* Player threads that each call enter(team, person) once and, when inside,
\* leave(team, person).  Both functions run under m from their first to their
\* last statement (cv.wait releases m while blocked), so a call up to its
\* block, a re-check after a wake-up, and a leave are one step each.

Players == 1..MaxPlayers

Teams == {1, 2}

EmptyGround == -1

Capacity == 10

\* A variant of canEnter that admits team-mates without counting them.
canEnterUncounted(P, team) ==
    \/ P.cur = EmptyGround /\ (P.q = <<>> \/ Head(P.q) = team)
    \/ P.cur = team

canEnter(P, team) ==
    \/ P.cur = EmptyGround /\ (P.q = <<>> \/ Head(P.q) = team)
    \/ P.cur = team /\ P.count < Capacity

\* What front() returns on a queue that a pop of an empty queue has corrupted.
Garbage == 0

\* q.pop(): the queues that can result.  On an empty queue the call is
\* undefined: it may leave an empty queue behind or a corrupted one (or end
\* the process, see GoIn).
PopTeam(queue) == IF queue # <<>> THEN {Tail(queue)} ELSE {<<>>, <<Garbage>>}

\* The part of enter after the wait, as the set of its outcomes: a team that
\* finds the playground empty takes it over (q.pop(), s.erase(team)); count++.
GoIn(P, p) ==
    IF P.cur = EmptyGround
      THEN {[P EXCEPT !.cur = P.team[p], !.q = after, !.s = @ \ {P.team[p]},
                      !.count = @ + 1, !.pc[p] = "inside"] : after \in PopTeam(P.q)}
           \cup (IF P.q = <<>> THEN {[P EXCEPT !.crashed = TRUE]} ELSE {})
      ELSE {[P EXCEPT !.count = @ + 1, !.pc[p] = "inside"]}

\* A step of this program: the playground becomes r, nothing else changes.
PlayStep(r) ==
    /\ playGround' = r
    /\ UNCHANGED <<pipelineVars, taskWorker, buddyAllocator, webCrawler, batchScheduler,
                 scheduler, chunkCopy, taskManager>>

\* A default-constructed PlayGround and the players' teams.
PlayInit ==
    /\ \E t \in [Players -> Teams] :
          playGround = [team |-> t,
                        q |-> <<>>,
                        s |-> {},
                        cur |-> EmptyGround,
                        count |-> 0,
                        crashed |-> FALSE,
                        pc |-> [p \in Players |-> "outside"]]
    /\ InitWith(EmptyGraph, 1, {})
    /\ taskWorker = NotConstructed
    /\ buddyAllocator = NotConstructed
    /\ webCrawler = NotConstructed
    /\ batchScheduler = NotConstructed
    /\ scheduler = NotConstructed
    /\ chunkCopy = NotConstructed
    /\ taskManager = NotConstructed

\* enter(team, person) up to the end of the call or to its block in cv.wait.
Enter(p) ==
    LET P == playGround
        queued == IF P.team[p] \in P.s THEN P
                  ELSE [P EXCEPT !.q = Append(@, P.team[p]), !.s = @ \cup {P.team[p]}]
    IN /\ ~P.crashed
       /\ p \in DOMAIN P.pc
       /\ P.pc[p] = "outside"
       /\ IF canEnter(queued, P.team[p])
            THEN \E r \in GoIn(queued, p) : PlayStep(r)
            ELSE PlayStep([queued EXCEPT !.pc[p] = "waiting"])

\* A notified player has m again and evaluates the predicate of its wait.
Recheck(p) ==
    LET P == playGround
    IN /\ ~P.crashed
       /\ p \in DOMAIN P.pc
       /\ P.pc[p] = "notified"
       /\ IF canEnter(P, P.team[p])
            THEN \E r \in GoIn(P, p) : PlayStep(r)
            ELSE PlayStep([P EXCEPT !.pc[p] = "waiting"])

\* A spurious wake-up of cv.wait.
PlaySpuriousWake(p) ==
    LET P == playGround
    IN /\ ~P.crashed
       /\ p \in DOMAIN P.pc
       /\ P.pc[p] = "waiting"
       /\ PlayStep([P EXCEPT !.pc[p] = "notified"])

\* leave(team, person): count--, the last player sets cur = -1, and
\* cv.notify_all() in both branches.
Leave(p) ==
    LET P == playGround
    IN /\ ~P.crashed
       /\ p \in DOMAIN P.pc
       /\ P.pc[p] = "inside"
       /\ PlayStep([P EXCEPT !.count = @ - 1,
                             !.cur = IF P.count - 1 = 0 THEN EmptyGround ELSE @,
                             !.pc = [x \in DOMAIN P.pc |->
                                        IF x = p THEN "left"
                                        ELSE IF P.pc[x] = "waiting" THEN "notified"
                                        ELSE P.pc[x]]])

PlayerStep(p) == Enter(p) \/ Recheck(p) \/ Leave(p)

PlayNext ==
    \/ \E p \in Players : PlayerStep(p)
    \/ \E p \in Players : PlaySpuriousWake(p)

PlaySpec == PlayInit /\ [][PlayNext]_vars

\* The crowds tried: eleven players of one team, enough to fill the
\* playground, and three players of two teams.
ElevenTeamMates == <<1, 1, 1, 1, 1, 1, 1, 1, 1, 1, 1>>

RivalBetweenMates == <<1, 2, 1>>

Crowds == {ElevenTeamMates, RivalBetweenMates}

CrowdPlayers == 1..Len(ElevenTeamMates)

\* A default-constructed PlayGround and a crowd of players.
CrowdInit ==
    /\ \E t \in Crowds :
          playGround = [team |-> t,
                        q |-> <<>>,
                        s |-> {},
                        cur |-> EmptyGround,
                        count |-> 0,
                        crashed |-> FALSE,
                        pc |-> [p \in DOMAIN t |-> "outside"]]
    /\ InitWith(EmptyGraph, 1, {})
    /\ taskWorker = NotConstructed
    /\ buddyAllocator = NotConstructed
    /\ webCrawler = NotConstructed
    /\ batchScheduler = NotConstructed
    /\ scheduler = NotConstructed
    /\ chunkCopy = NotConstructed
    /\ taskManager = NotConstructed

CrowdNext ==
    \/ \E p \in CrowdPlayers : PlayerStep(p)
    \/ \E p \in CrowdPlayers : PlaySpuriousWake(p)

CrowdSpec == CrowdInit /\ [][CrowdNext]_vars

\* The players blocked in enter.
Blocked == {p \in Players : playGround.pc[p] \in {"waiting", "notified"}}

\* C29: whenever the playground is empty while players are blocked in enter,
\* one of them satisfies canEnter, so that it enters at its next re-check.
C29_EmptyGroundAdmitsWaiter ==
    (playGround.cur = EmptyGround /\ Blocked # {}) =>
        \E p \in Blocked : canEnter(playGround, playGround.team[p])

\* ------------------------------------- playground_new.cpp: GatedBatchScheduler
\* The scheduler thread running schedule(), the threads of the batch it has
\* started, and the thread (Main) that passes the arrivals to addPlayer one
\* after the other.  A player is its position in the list of arrivals; the
\* list gives its team.  The client does not call stop(): running stays true.

MAX_CAP == 10

BatchLimit == 10

NoTeam == -1

\* The lists of arrivals tried: the teams of the players, in arrival order.
ElevenOfOneTeam == <<1, 1, 1, 1, 1, 1, 1, 1, 1, 1, 1>>

MixedArrivals == <<1, 2, 1, 2, 3>>

ArrivalLists == {ElevenOfOneTeam, MixedArrivals}

BatchTeams == {1, 2, 3}

\* The players of the longest list.
ArrivalPlayers == 1..Len(ElevenOfOneTeam)

\* The first n items of a sequence, or all of it when it is shorter.
Take(seq, n) == SubSeq(seq, 1, IF Len(seq) < n THEN Len(seq) ELSE n)

\* The sequence without its first n items.
Drop(seq, n) == SubSeq(seq, (IF Len(seq) < n THEN Len(seq) ELSE n) + 1, Len(seq))

\* The sequences that list every element of the finite set S once.
Orders(S) == {o \in [1..Cardinality(S) -> S] : \A x \in S : \E i \in DOMAIN o : o[i] = x}

RECURSIVE Promote(_, _)
\* The loop over pending_queues in the order given: a team whose active queue
\* is empty is pushed onto team_order, and its pending players are appended
\* to its active queue.
Promote(S, order) ==
    IF order = <<>> THEN S
    ELSE LET team == Head(order)
             pushed == IF S.team_queues[team] = <<>>
                         THEN [S EXCEPT !.team_order = Append(@, team)]
                         ELSE S
         IN Promote([pushed EXCEPT !.team_queues[team] = @ \o S.pending_queues[team],
                                   !.pending_queues[team] = <<>>],
                    Tail(order))

\* A step of this program: the scheduler becomes r, nothing else changes.
BatchStep(r) ==
    /\ batchScheduler' = r
    /\ UNCHANGED <<pipelineVars, taskWorker, buddyAllocator, webCrawler, playGround,
                 scheduler, chunkCopy, taskManager>>

\* GatedBatchScheduler(pg) on an empty Playground; schedule() has been started.
BatchInit ==
    /\ \E a \in ArrivalLists :
          batchScheduler = [arrivals |-> a,
                            arrived |-> 0,
                            running |-> TRUE,
                            gate_open |-> TRUE,
                            team_order |-> <<>>,
                            team_queues |-> [t \in BatchTeams |-> <<>>],
                            pending_queues |-> [t \in BatchTeams |-> <<>>],
                            schedPc |-> "wait",
                            next_team |-> NoTeam,
                            batch |-> <<>>,
                            worker |-> [p \in ArrivalPlayers |-> "none"],
                            current_team |-> NoTeam,
                            inside_count |-> 0,
                            batched |-> {}]
    /\ InitWith(EmptyGraph, 1, {})
    /\ taskWorker = NotConstructed
    /\ buddyAllocator = NotConstructed
    /\ webCrawler = NotConstructed
    /\ playGround = NotConstructed
    /\ scheduler = NotConstructed
    /\ chunkCopy = NotConstructed
    /\ taskManager = NotConstructed

\* addPlayer(p) for the next arrival, under q_mtx.
AddPlayer ==
    LET S == batchScheduler
        p == S.arrived + 1
        team == S.arrivals[p]
    IN /\ S.arrived < Len(S.arrivals)
       /\ IF S.gate_open
            THEN BatchStep([S EXCEPT !.team_order = IF S.team_queues[team] = <<>>
                                                     THEN Append(@, team) ELSE @,
                                     !.team_queues[team] = Append(@, p),
                                     !.arrived = p])
            ELSE BatchStep([S EXCEPT !.pending_queues[team] = Append(@, p),
                                     !.arrived = p])

\* schedule(), the first block under q_mtx once team_order is not empty: the
\* front team is taken, the gate is closed, up to BatchLimit of the team's
\* players are moved into the batch (the team's queue is erased when that
\* empties it), and a thread is started for each player of the batch.
FormBatch ==
    LET S == batchScheduler
        team == Head(S.team_order)
        teamQ == S.team_queues[team]
    IN /\ S.schedPc = "wait"
       /\ S.running
       /\ S.team_order # <<>>
       /\ BatchStep([S EXCEPT !.next_team = team,
                              !.team_order = Tail(@),
                              !.gate_open = FALSE,
                              !.batch = Take(teamQ, BatchLimit),
                              !.team_queues[team] = Drop(teamQ, BatchLimit),
                              !.worker = [p \in DOMAIN S.worker |->
                                             IF p \in Range(Take(teamQ, BatchLimit))
                                               THEN "enter" ELSE S.worker[p]],
                              !.batched = @ \cup Range(Take(teamQ, BatchLimit)),
                              !.schedPc = "join"])

\* playground.enter(p) of a batch thread: it passes the wait when the
\* playground is empty or its team's and has room.
PlaygroundEnter(p) ==
    LET S == batchScheduler
    IN /\ S.worker[p] = "enter"
       /\ (S.current_team = NoTeam \/ S.current_team = S.arrivals[p])
       /\ S.inside_count < MAX_CAP
       /\ BatchStep([S EXCEPT !.current_team = S.arrivals[p],
                              !.inside_count = @ + 1,
                              !.worker[p] = "inside"])

\* playground.leave(p) of a batch thread, after its play time; the thread ends.
PlaygroundLeave(p) ==
    LET S == batchScheduler
    IN /\ S.worker[p] = "inside"
       /\ BatchStep([S EXCEPT !.inside_count = @ - 1,
                              !.current_team = IF S.inside_count - 1 = 0 THEN NoTeam ELSE @,
                              !.worker[p] = "done"])

\* schedule(): the threads of the batch are joined; then, under q_mtx, the
\* pending players are promoted in the order in which the unordered map
\* yields their teams, pending_queues is cleared and the gate is opened.
JoinAndPromote ==
    LET S == batchScheduler
        pending == {t \in BatchTeams : S.pending_queues[t] # <<>>}
    IN /\ S.schedPc = "join"
       /\ \A i \in 1..Len(S.batch) : S.worker[S.batch[i]] = "done"
       /\ \E order \in Orders(pending) :
             BatchStep([Promote(S, order) EXCEPT !.gate_open = TRUE,
                                                 !.batch = <<>>,
                                                 !.schedPc = "wait"])

BatchNext ==
    \/ AddPlayer
    \/ FormBatch
    \/ \E p \in ArrivalPlayers : PlaygroundEnter(p)
    \/ \E p \in ArrivalPlayers : PlaygroundLeave(p)
    \/ JoinAndPromote

BatchSpec == BatchInit /\ [][BatchNext]_vars

\* The players in an active queue of the scheduler.
ActiveWaiting(team) == Range(batchScheduler.team_queues[team])

\* C30: a team with players in its active queue is in team_order, so that its
\* players are placed in a later batch; this includes the players that did
\* not fit into the batch formed for their team.
C30_WaitingTeamIsScheduled ==
    \A team \in BatchTeams :
        ActiveWaiting(team) # {} => team \in Range(batchScheduler.team_order)

\* C35: a pool thread has exited only if stop is set and the task queue is
\* empty; no task is run twice; and when the destructor has joined the threads
\* every submitted task has been run once.
C35_QueueDrainedBeforeExit ==
    /\ \A w \in Workers :
          taskWorker.pc[w] = "exited" => (taskWorker.stop /\ taskWorker.tasks = <<>>)
    /\ \A i \in 1..taskWorker.nTasks : taskWorker.ran[i] <= 1
    /\ taskWorker.callerPc = "destroyed" =>
          \A i \in 1..taskWorker.nTasks : taskWorker.ran[i] = 1

\* The destructor has set stop and notified while both tasks were still
\* queued, and a thread is about to test stop && tasks.empty().
C35_Witness ==
    /\ taskWorker.callerPc = "dtor_join"
    /\ taskWorker.stop
    /\ Len(taskWorker.tasks) = 2
    /\ \E w \in Workers : taskWorker.pc[w] = "loop_pred"

\* The players inside the playground.
Inside == {p \in DOMAIN playGround.pc : playGround.pc[p] = "inside"}

\* C36: count is the number of players inside and is at most 10; every
\* player inside belongs to team cur; cur is -1 exactly when nobody is inside.
C36_OneTeamAtMostTen ==
    /\ playGround.count = Cardinality(Inside)
    /\ Cardinality(Inside) <= 10
    /\ \A p \in Inside : playGround.team[p] = playGround.cur
    /\ playGround.cur = EmptyGround <=> Inside = {}

\* Ten players of team 1 are inside and the eleventh is blocked in enter.
C36_Witness ==
    /\ playGround.team = ElevenTeamMates
    /\ Cardinality(Inside) = 10
    /\ \E p \in DOMAIN playGround.pc : playGround.pc[p] = "waiting"

\* ---------------------------------------------------------------------------
\* scheduler.cpp and scheduler_new.cpp: a timer thread that runs one-time and
\* periodic tasks.  Time points are kept relative to steady_clock::now(): a
\* nextRun of 0 or less is due.
\* ---------------------------------------------------------------------------

MaxSchedules == 2

MaxDelay == 1

\* How late a task is remembered to be.
MaxLate == 1

Delays == 0..MaxDelay

\* scheduleOnce(func, delayMs) and scheduleRecurring(func, intervalMs).
SchedulerCalls ==
    [type : {"ONE_SHOT", "RECURRING"}, delayMs : Delays, intervalMs : {0}]

\* schedule(command, delayMs), scheduleAtFixedRate(command, initialDelayMs,
\* periodMs) and scheduleWithFixedDelay(command, initialDelayMs, delayMs).
ServiceCalls ==
    [type : {"ONE_SHOT"}, delayMs : Delays, intervalMs : {0}]
        \cup [type : {"FIXED_RATE", "FIXED_DELAY"}, delayMs : Delays, intervalMs : Delays]

Calls(service) ==
    IF service = "Scheduler" THEN SchedulerCalls ELSE ServiceCalls

\* The Task that a call queues.
TaskOf(service, c, id) ==
    [id |-> id,
     nextRun |-> c.delayMs,
     intervalMs |-> IF service = "Scheduler" THEN c.delayMs ELSE c.intervalMs,
     type |-> c.type]

NoTask == [id |-> 0, nextRun |-> 0, intervalMs |-> 0, type |-> "ONE_SHOT"]

\* tasks.top(): a task of least nextRun.
Top(tasks) == {t \in tasks : \A u \in tasks : t.nextRun <= u.nextRun}

\* A time point after one unit of time has passed.
Later(t) == IF t - 1 < 0 - MaxLate THEN 0 - MaxLate ELSE t - 1

SchedStep(r) ==
    /\ scheduler' = r
    /\ UNCHANGED <<pipelineVars, taskWorker, buddyAllocator, webCrawler, playGround,
                 batchScheduler, chunkCopy, taskManager>>

\* Scheduler() or ScheduledExecutorService(): stop(false), worker started.
SchedInit ==
    /\ \E sv \in {"Scheduler", "ScheduledExecutorService"} :
          scheduler = [service |-> sv,
                       tasks |-> {},
                       stop |-> FALSE,
                       cv |-> {},
                       scheduled |-> 0,
                       callerPc |-> "schedule",
                       pc |-> "lock",
                       until |-> 0,
                       task |-> NoTask]
    /\ InitWith(EmptyGraph, 1, {})
    /\ taskWorker = NotConstructed
    /\ buddyAllocator = NotConstructed
    /\ webCrawler = NotConstructed
    /\ playGround = NotConstructed
    /\ batchScheduler = NotConstructed
    /\ chunkCopy = NotConstructed
    /\ taskManager = NotConstructed

\* scheduleTask: tasks.push(...) and cv.notify_one() under mtx.
ScheduleTask ==
    LET S == scheduler
    IN /\ S.callerPc = "schedule"
       /\ S.scheduled < MaxSchedules
       /\ \E c \in ServiceCalls \cup SchedulerCalls :
             /\ c \in Calls(S.service)
             /\ SchedStep([S EXCEPT !.tasks = @ \cup {TaskOf(S.service, c, S.scheduled + 1)},
                                    !.scheduled = @ + 1,
                                    !.cv = {}])

\* The destructor's block under mtx: stop = true.
SchedDtorStop ==
    LET S == scheduler
    IN /\ S.callerPc = "schedule"
       /\ SchedStep([S EXCEPT !.stop = TRUE, !.callerPc = "dtor_notify"])

\* The destructor's cv.notify_all().
SchedDtorNotify ==
    LET S == scheduler
    IN /\ S.callerPc = "dtor_notify"
       /\ SchedStep([S EXCEPT !.cv = {}, !.callerPc = "dtor_join"])

\* The destructor's worker.join().
SchedDtorJoin ==
    LET S == scheduler
    IN /\ S.callerPc = "dtor_join"
       /\ S.pc = "exited"
       /\ SchedStep([S EXCEPT !.callerPc = "destroyed"])

\* run, from the lock up to the break, to a block in cv.wait or in
\* cv.wait_until, or to the unlock before the task is run.
RunLock ==
    LET S == scheduler
    IN /\ S.pc = "lock"
       /\ IF ~(S.stop \/ S.tasks # {})
            THEN SchedStep([S EXCEPT !.pc = "waiting", !.cv = {"worker"}])
            ELSE IF S.stop /\ S.tasks = {}
                   THEN SchedStep([S EXCEPT !.pc = "exited"])
                   ELSE \E next \in Top(S.tasks) :
                           IF 0 < next.nextRun
                             THEN SchedStep([S EXCEPT !.pc = "timed_waiting",
                                                      !.cv = {"worker"},
                                                      !.until = next.nextRun])
                             ELSE SchedStep([S EXCEPT !.tasks = @ \ {next},
                                                      !.task = next,
                                                      !.pc = "run"])

\* cv.wait or cv.wait_until returns after a notification.
RunWake ==
    LET S == scheduler
    IN /\ S.pc \in {"waiting", "timed_waiting"}
       /\ "worker" \notin S.cv
       /\ SchedStep([S EXCEPT !.pc = "lock"])

\* cv.wait_until returns because next.nextRun has been reached.
RunTimeout ==
    LET S == scheduler
    IN /\ S.pc = "timed_waiting"
       /\ "worker" \in S.cv
       /\ S.until <= 0
       /\ SchedStep([S EXCEPT !.cv = {}, !.pc = "lock"])

\* A spurious wake-up of the worker.
RunSpuriousWake ==
    LET S == scheduler
    IN /\ S.pc \in {"waiting", "timed_waiting"}
       /\ "worker" \in S.cv
       /\ SchedStep([S EXCEPT !.cv = {}])

\* task.func().
RunFunc ==
    LET S == scheduler
    IN /\ S.pc = "run"
       /\ SchedStep([S EXCEPT !.pc = "reschedule"])

\* After task.func(): a recurring, fixed-rate or fixed-delay task is pushed
\* again with its new nextRun.
Reschedule ==
    LET S == scheduler
        again == IF S.task.type = "FIXED_RATE"
                   THEN [S.task EXCEPT !.nextRun = @ + S.task.intervalMs]
                   ELSE [S.task EXCEPT !.nextRun = S.task.intervalMs]
    IN /\ S.pc = "reschedule"
       /\ IF S.task.type = "ONE_SHOT"
            THEN SchedStep([S EXCEPT !.pc = "lock", !.task = NoTask])
            ELSE SchedStep([S EXCEPT !.tasks = @ \cup {again},
                                     !.task = NoTask,
                                     !.pc = "lock"])

\* The steady clock advances by one unit.
Tick ==
    LET S == scheduler
    IN /\ S.callerPc # "destroyed"
       /\ SchedStep([S EXCEPT
             !.tasks = {[t EXCEPT !.nextRun = Later(@)] : t \in S.tasks},
             !.task = IF S.pc \in {"run", "reschedule"}
                        THEN [@ EXCEPT !.nextRun = Later(@)] ELSE @,
             !.until = IF S.pc = "timed_waiting" THEN Later(@) ELSE @])

SchedClientStep == ScheduleTask \/ SchedDtorStop \/ SchedDtorNotify \/ SchedDtorJoin

RunStep == RunLock \/ RunWake \/ RunTimeout \/ RunFunc \/ Reschedule

SchedNext == SchedClientStep \/ RunStep \/ RunSpuriousWake \/ Tick

SchedSpec == SchedInit /\ [][SchedNext]_vars

\* The threads are scheduled fairly and time passes.
SchedFairSpec ==
    /\ SchedSpec
    /\ WF_vars(SchedClientStep)
    /\ WF_vars(RunStep)
    /\ WF_vars(Tick)

\* C31: once the destructor has set stop and notified the worker, the worker
\* leaves run and the destructor's join returns.
C31_DestructorReturns ==
    (scheduler.callerPc = "dtor_join") ~> (scheduler.callerPc = "destroyed")

\* ---------------------------------------------------------------------------
\* filewrite.cpp: copy() with reader threads, writer threads and a bounded
\* ChunkQueue.  The source has NUM_READERS = NUM_WRITERS = 4 and
\* MAX_QUEUE_SIZE = 32; the same code is run here with fewer threads and a
\* shorter queue.  Offsets and fileSize are counted in chunks of the source's
\* BUFFER_SIZE bytes.
\* ---------------------------------------------------------------------------

NUM_READERS == 2

NUM_WRITERS == 2

MAX_QUEUE_SIZE == 2

BUFFER_SIZE == 1

\* The largest fileSize tried, in chunks.
MaxChunks == 5

Readers == 1..NUM_READERS

Writers == 1..NUM_WRITERS

Offsets == 0..(MaxChunks - 1)

NoChunk == 0 - 1

\* The waiters left after notify_one on a condition variable.
NotifyOne(waiters) ==
    IF waiters = {} THEN {{}} ELSE {waiters \ {t} : t \in waiters}

CopyStep(r) ==
    /\ chunkCopy' = r
    /\ UNCHANGED <<pipelineVars, taskWorker, buddyAllocator, webCrawler, playGround,
                 batchScheduler, scheduler, taskManager>>

\* copy() after both files are open and every thread has been launched.
CopyInit ==
    /\ \E size \in 0..MaxChunks :
          chunkCopy = [fileSize |-> size * BUFFER_SIZE,
                       nextOffset |-> 0,
                       activeReaders |-> NUM_READERS,
                       q |-> <<>>,
                       done |-> FALSE,
                       cv_full |-> {},
                       cv_empty |-> {},
                       reader |-> [r \in Readers |-> "fetch"],
                       offset |-> [r \in Readers |-> NoChunk],
                       writer |-> [w \in Writers |-> "pop"],
                       chunk |-> [w \in Writers |-> NoChunk],
                       mainPc |-> "join_readers",
                       claims |-> [o \in Offsets |-> 0],
                       reads |-> [o \in Offsets |-> 0],
                       writes |-> [o \in Offsets |-> 0],
                       ioError |-> FALSE]
    /\ InitWith(EmptyGraph, 1, {})
    /\ taskWorker = NotConstructed
    /\ buddyAllocator = NotConstructed
    /\ webCrawler = NotConstructed
    /\ playGround = NotConstructed
    /\ batchScheduler = NotConstructed
    /\ scheduler = NotConstructed
    /\ taskManager = NotConstructed

\* readerThreadFunc: offset = nextOffset.fetch_add(BUFFER_SIZE), and the break
\* when offset >= fileSize.
ReaderFetch(r) ==
    LET C == chunkCopy
        off == C.nextOffset
    IN /\ C.reader[r] = "fetch"
       /\ IF off >= C.fileSize
            THEN CopyStep([C EXCEPT !.nextOffset = @ + BUFFER_SIZE,
                                    !.offset[r] = off,
                                    !.reader[r] = "decrement"])
            ELSE CopyStep([C EXCEPT !.nextOffset = @ + BUFFER_SIZE,
                                    !.offset[r] = off,
                                    !.claims[off] = @ + 1,
                                    !.reader[r] = "pread"])

\* pread returns data: the chunk is filled.
Pread(r) ==
    LET C == chunkCopy
    IN /\ C.reader[r] = "pread"
       /\ CopyStep([C EXCEPT !.reads[C.offset[r]] = @ + 1,
                             !.reader[r] = "push"])

\* pread returns a negative value or 0: the reader leaves its loop.
PreadFails(r) ==
    LET C == chunkCopy
    IN /\ C.reader[r] = "pread"
       /\ CopyStep([C EXCEPT !.ioError = TRUE,
                             !.reader[r] = "decrement"])

\* ChunkQueue::push: blocks in cv_full.wait while the queue is full, else
\* q.push and cv_empty.notify_one().
QueuePush(r) ==
    LET C == chunkCopy
    IN /\ C.reader[r] = "push"
       /\ r \notin C.cv_full
       /\ IF Len(C.q) < MAX_QUEUE_SIZE
            THEN \E left \in NotifyOne(C.cv_empty) :
                    CopyStep([C EXCEPT !.q = Append(@, C.offset[r]),
                                       !.cv_empty = left,
                                       !.reader[r] = "fetch"])
            ELSE CopyStep([C EXCEPT !.cv_full = @ \cup {r}])

\* A spurious wake-up of a reader blocked in push.
ReaderSpuriousWake(r) ==
    LET C == chunkCopy
    IN /\ r \in C.cv_full
       /\ CopyStep([C EXCEPT !.cv_full = @ \ {r}])

\* A variant of the end of readerThreadFunc in which every reader calls setDone.
ReaderDecrementAlwaysDone(r) ==
    LET C == chunkCopy
    IN /\ C.reader[r] = "decrement"
       /\ CopyStep([C EXCEPT !.activeReaders = @ - 1,
                             !.reader[r] = "set_done"])

\* readerThreadFunc: --activeReaders == 0.
ReaderDecrement(r) ==
    LET C == chunkCopy
    IN /\ C.reader[r] = "decrement"
       /\ CopyStep([C EXCEPT !.activeReaders = @ - 1,
                             !.reader[r] = IF C.activeReaders - 1 = 0
                                             THEN "set_done" ELSE "exited"])

\* readerThreadFunc: queue.setDone() by the last reader.
ReaderSetDone(r) ==
    LET C == chunkCopy
    IN /\ C.reader[r] = "set_done"
       /\ CopyStep([C EXCEPT !.done = TRUE,
                             !.cv_empty = {},
                             !.reader[r] = "exited"])

\* ChunkQueue::pop: blocks in cv_empty.wait until done or a chunk is queued;
\* returns false on an empty queue, else takes the front chunk and calls
\* cv_full.notify_one().
QueuePop(w) ==
    LET C == chunkCopy
    IN /\ C.writer[w] = "pop"
       /\ w \notin C.cv_empty
       /\ IF ~(C.done \/ C.q # <<>>)
            THEN CopyStep([C EXCEPT !.cv_empty = @ \cup {w}])
            ELSE IF C.q = <<>>
                   THEN CopyStep([C EXCEPT !.writer[w] = "exited"])
                   ELSE \E left \in NotifyOne(C.cv_full) :
                           CopyStep([C EXCEPT !.chunk[w] = Head(C.q),
                                              !.q = Tail(@),
                                              !.cv_full = left,
                                              !.writer[w] = "pwrite"])

\* A spurious wake-up of a writer blocked in pop.
WriterSpuriousWake(w) ==
    LET C == chunkCopy
    IN /\ w \in C.cv_empty
       /\ CopyStep([C EXCEPT !.cv_empty = @ \ {w}])

\* writerThreadFunc: the pwrite loop writes the whole chunk.
Pwrite(w) ==
    LET C == chunkCopy
    IN /\ C.writer[w] = "pwrite"
       /\ CopyStep([C EXCEPT !.writes[C.chunk[w]] = @ + 1,
                             !.writer[w] = "pop"])

\* writerThreadFunc: pwrite returns a negative value and the writer returns.
PwriteFails(w) ==
    LET C == chunkCopy
    IN /\ C.writer[w] = "pwrite"
       /\ CopyStep([C EXCEPT !.ioError = TRUE,
                             !.writer[w] = "exited"])

\* copy: every reader has been joined.
CopyJoinReaders ==
    LET C == chunkCopy
    IN /\ C.mainPc = "join_readers"
       /\ \A r \in Readers : C.reader[r] = "exited"
       /\ CopyStep([C EXCEPT !.mainPc = "set_done"])

\* copy: queue.setDone().
CopySetDone ==
    LET C == chunkCopy
    IN /\ C.mainPc = "set_done"
       /\ CopyStep([C EXCEPT !.done = TRUE,
                             !.cv_empty = {},
                             !.mainPc = "join_writers"])

\* copy: every writer has been joined; the files are closed and 0 is returned.
CopyJoinWriters ==
    LET C == chunkCopy
    IN /\ C.mainPc = "join_writers"
       /\ \A w \in Writers : C.writer[w] = "exited"
       /\ CopyStep([C EXCEPT !.mainPc = "returned"])

ReaderStep(r) ==
    \/ ReaderFetch(r)
    \/ Pread(r)
    \/ PreadFails(r)
    \/ QueuePush(r)
    \/ ReaderDecrement(r)
    \/ ReaderSetDone(r)

WriterStep(w) == QueuePop(w) \/ Pwrite(w) \/ PwriteFails(w)

CopyMainStep == CopyJoinReaders \/ CopySetDone \/ CopyJoinWriters

CopyNext ==
    \/ \E r \in Readers : ReaderStep(r)
    \/ \E r \in Readers : ReaderSpuriousWake(r)
    \/ \E w \in Writers : WriterStep(w)
    \/ \E w \in Writers : WriterSpuriousWake(w)
    \/ CopyMainStep

CopySpec == CopyInit /\ [][CopyNext]_vars

\* C32: copy returns in every run: it never comes to a state where a reader
\* waits for room in a full queue after every writer has returned, which is a
\* state no thread can leave.
C32_CopyReturns ==
    ~ /\ \A w \in Writers : chunkCopy.writer[w] = "exited"
      /\ Len(chunkCopy.q) >= MAX_QUEUE_SIZE
      /\ \E r \in Readers : chunkCopy.reader[r] = "push"
      /\ chunkCopy.mainPc = "join_readers"

\* The chunk offsets below fileSize.
Chunks == {o \in Offsets : o < chunkCopy.fileSize}

\* What C33 says of claims, writes and the queue's length.
OnceEach ==
    /\ \A o \in Offsets : chunkCopy.claims[o] <= 1 /\ chunkCopy.writes[o] <= 1
    /\ Len(chunkCopy.q) <= MAX_QUEUE_SIZE
    /\ chunkCopy.mainPc = "returned" =>
          \A o \in Chunks : chunkCopy.claims[o] = 1 /\ chunkCopy.writes[o] = 1

\* C33 as stated: in a copy with no I/O error every chunk below fileSize is
\* claimed by one reader and written by one writer, the queue holds at most
\* MAX_QUEUE_SIZE chunks, and no writer has exited while a chunk that has been
\* read is still unwritten.
C33_AsStated ==
    ~chunkCopy.ioError =>
        /\ OnceEach
        /\ \A w \in Writers :
              chunkCopy.writer[w] = "exited" =>
                  \A o \in Offsets : chunkCopy.reads[o] = 1 => chunkCopy.writes[o] = 1

\* C33, amended: as above, but of a writer that has exited only this holds:
\* every reader has finished and no chunk is queued (a chunk that has been read
\* may still be in the hands of another writer).
C33_NoChunkLeftQueued ==
    ~chunkCopy.ioError =>
        /\ OnceEach
        /\ \A w \in Writers :
              chunkCopy.writer[w] = "exited" =>
                  /\ chunkCopy.q = <<>>
                  /\ chunkCopy.activeReaders = 0

\* A copy of MaxChunks chunks has returned without an I/O error.
C33_Witness ==
    /\ ~chunkCopy.ioError
    /\ chunkCopy.fileSize = MaxChunks * BUFFER_SIZE
    /\ chunkCopy.mainPc = "returned"

\* ---------------------------------------------------------------------------
\* Nodescheduler.cpp: TaskManager::reassembleTasks.  Nodes are numbered from 1
\* here (from 0 in the source).
\* ---------------------------------------------------------------------------

MaxNodes == 2

MaxAdds == 3

MaxCost == 3

Costs == 0..MaxCost

\* WorkerNode::addTask on node nodeId: taskQueue.push(t); totalLoad += t.cpuCost.
AddTask(nodes, nodeId, t) ==
    [nodes EXCEPT ![nodeId] = [taskQueue |-> Append(@.taskQueue, t),
                               totalLoad |-> @.totalLoad + t.cpuCost]]

\* The nodes after the first c of the calls addTask(adds[x][1], x, adds[x][2]).
RECURSIVE AddAll(_, _, _)
AddAll(nodes, adds, c) ==
    IF c = 0 THEN nodes
    ELSE AddTask(AddAll(nodes, adds, c - 1), adds[c][1],
                 [taskId |-> c, cpuCost |-> adds[c][2]])

\* The sum of the nodes' totalLoad.
RECURSIVE LoadSum(_, _)
LoadSum(nodes, c) ==
    IF c = 0 THEN 0 ELSE nodes[c].totalLoad + LoadSum(nodes, c - 1)

\* The tasks queued on any node, and how many times task t is queued.
QueuedTasks(nodes) ==
    UNION {Range(nodes[c].taskQueue) : c \in DOMAIN nodes}

Copies(nodes, t) ==
    SumOver([c \in DOMAIN nodes |->
                Cardinality({x \in DOMAIN nodes[c].taskQueue : nodes[c].taskQueue[x] = t})],
            DOMAIN nodes)

ManagerStep(r) ==
    /\ taskManager' = r
    /\ UNCHANGED <<pipelineVars, taskWorker, buddyAllocator, webCrawler, playGround,
                 batchScheduler, scheduler, chunkCopy>>

\* TaskManager(n) followed by addTask calls; reassembleTasks is about to be
\* called.
ManagerInit ==
    /\ \E n \in 0..MaxNodes :
          \E c \in 0..(IF n = 0 THEN 0 ELSE MaxAdds) :
             \E adds \in [1..c -> (1..n) \X Costs] :
                LET built == AddAll([x \in 1..n |-> [taskQueue |-> <<>>, totalLoad |-> 0]],
                                    adds, c)
                IN taskManager = [nodes |-> built,
                                  before |-> built,
                                  avgLoad |-> 0,
                                  i |-> 1,
                                  j |-> 1,
                                  moved |-> FALSE,
                                  pc |-> "call"]
    /\ InitWith(EmptyGraph, 1, {})
    /\ taskWorker = NotConstructed
    /\ buddyAllocator = NotConstructed
    /\ webCrawler = NotConstructed
    /\ playGround = NotConstructed
    /\ batchScheduler = NotConstructed
    /\ scheduler = NotConstructed
    /\ chunkCopy = NotConstructed

\* reassembleTasks, step 1: the early returns and avgLoad.
ComputeAverage ==
    LET M == taskManager
        size == Len(M.nodes)
        totalLoad == LoadSum(M.nodes, size)
    IN /\ M.pc = "call"
       /\ IF size = 0
            THEN ManagerStep([M EXCEPT !.pc = "returned"])
            ELSE IF totalLoad \div size = 0
                   THEN ManagerStep([M EXCEPT !.avgLoad = 0, !.pc = "returned"])
                   ELSE ManagerStep([M EXCEPT !.avgLoad = totalLoad \div size,
                                              !.i = 1,
                                              !.pc = "outer"])

\* for (i = 0; i < nodes.size(); ++i).
OuterTest ==
    LET M == taskManager
    IN /\ M.pc = "outer"
       /\ IF M.i > Len(M.nodes)
            THEN ManagerStep([M EXCEPT !.pc = "returned"])
            ELSE ManagerStep([M EXCEPT !.pc = "while"])

\* while (nodes[i].totalLoad > avgLoad): into the inner for loop, or ++i.
WhileTest ==
    LET M == taskManager
    IN /\ M.pc = "while"
       /\ IF M.nodes[M.i].totalLoad > M.avgLoad
            THEN ManagerStep([M EXCEPT !.j = 1, !.moved = FALSE, !.pc = "for"])
            ELSE ManagerStep([M EXCEPT !.i = @ + 1, !.pc = "outer"])

\* One iteration of for (j = 0; j < nodes.size(); ++j): a task is moved from
\* node i to node j when j is below the average and i has a task.
ForBody ==
    LET M == taskManager
        t == Head(M.nodes[M.i].taskQueue)
        moving == [M.nodes EXCEPT
                      ![M.i] = [taskQueue |-> Tail(@.taskQueue),
                                totalLoad |-> @.totalLoad - t.cpuCost],
                      ![M.j] = [taskQueue |-> Append(@.taskQueue, t),
                                totalLoad |-> @.totalLoad + t.cpuCost]]
    IN /\ M.pc = "for"
       /\ M.j <= Len(M.nodes)
       /\ IF M.i # M.j /\ M.nodes[M.j].totalLoad < M.avgLoad
                       /\ M.nodes[M.i].taskQueue # <<>>
            THEN IF moving[M.i].totalLoad <= M.avgLoad
                   THEN ManagerStep([M EXCEPT !.nodes = moving,
                                              !.moved = TRUE,
                                              !.pc = "while"])
                   ELSE ManagerStep([M EXCEPT !.nodes = moving,
                                              !.moved = TRUE,
                                              !.j = @ + 1])
            ELSE ManagerStep([M EXCEPT !.j = @ + 1])

\* The inner for loop has tried every j: back to the while test.
ForEnd ==
    LET M == taskManager
    IN /\ M.pc = "for"
       /\ M.j > Len(M.nodes)
       /\ ManagerStep([M EXCEPT !.pc = "while"])

ManagerNext == ComputeAverage \/ OuterTest \/ WhileTest \/ ForBody \/ ForEnd

ManagerSpec == ManagerInit /\ [][ManagerNext]_vars

\* The inner for loop has tried every node and moved nothing: nodes[i] is
\* still above the average and every later pass does the same.
PassWithoutMove ==
    /\ taskManager.pc = "for"
    /\ taskManager.j > Len(taskManager.nodes)
    /\ ~taskManager.moved

\* The tasks and the sum of the loads are those at the call.
SameTasksAndLoad ==
    /\ LoadSum(taskManager.nodes, Len(taskManager.nodes))
          = LoadSum(taskManager.before, Len(taskManager.before))
    /\ \A t \in QueuedTasks(taskManager.nodes) \cup QueuedTasks(taskManager.before) :
          Copies(taskManager.nodes, t) = Copies(taskManager.before, t)

\* C34: reassembleTasks terminates, so its while loop never makes a pass that
\* moves nothing, and it leaves the multiset of tasks and the sum of the
\* nodes' loads as they were.
C34_ReassembleTerminates ==
    /\ ~PassWithoutMove
    /\ SameTasksAndLoad

====
